---- MODULE Spec2Model ----
(***************************************************************************)
(* torncoder: storage delegates (file_util/_core.py, _aiofile.py,          *)
(* _threaded.py), the SimpleFileManager index and the upload handler of    *)
(* cli/file_cache_server.py.                                               *)
(*                                                                         *)
(* Bytes are integers, byte strings are sequences of bytes.  A Python      *)
(* dict is a function whose DOMAIN is the set of keys present.  An         *)
(* Optional value is a sequence: <<>> is None, <<v>> is the value v.       *)
(***************************************************************************)
EXTENDS Integers, Sequences, FiniteSets, TLC

\* ------------------------------------------------------------------------
\* Bounds
\* ------------------------------------------------------------------------
\* Longest payload written under one internal key.
MaxLen == 3
\* Longest argument of a single write call.
MaxChunk == 2
\* Read size of the chunked backends (DEFAULT_BUFF_SIZE, 4096 in the source,
\* scaled down so that payloads span several chunks).
BuffSize == 2

\* b'\n', the byte on which iterating a binary file splits lines.
LF == 10
Bytes == {97, LF}

IKeys == {"k1", "k2", "k3"}
NoKey == "-"
Backends == {"Memory", "Synchronous", "NativeAio", "Threaded"}

None == <<>>
Some(v) == <<v>>

\* ------------------------------------------------------------------------
\* Python helpers
\* ------------------------------------------------------------------------
Min(a, b) == IF a < b THEN a ELSE b
Max(a, b) == IF a > b THEN a ELSE b

Take(s, n) == SubSeq(s, 1, Min(Max(n, 0), Len(s)))
Drop(s, n) == SubSeq(s, Min(Max(n, 0), Len(s)) + 1, Len(s))

\* s[i] of a slice bound: negative indices count from the end, then clamp.
SliceIndex(s, i) == IF i < 0 THEN Max(Len(s) + i, 0) ELSE Min(i, Len(s))
\* data[start:end]; end = None is data[start:].
PySlice(s, start, end) ==
    LET lo == SliceIndex(s, start)
        hi == IF end = None THEN Len(s) ELSE SliceIndex(s, end[1])
    IN  IF hi <= lo THEN <<>> ELSE SubSeq(s, lo + 1, hi)

RECURSIVE Flatten(_)
Flatten(chunks) ==
    IF chunks = <<>> THEN <<>> ELSE Head(chunks) \o Flatten(Tail(chunks))

\* dict helpers
DictSet(d, k, v) == [x \in (DOMAIN d) \cup {k} |-> IF x = k THEN v ELSE d[x]]
DictPop(d, k) == [x \in (DOMAIN d) \ {k} |-> d[x]]
EmptyDict == [x \in {} |-> <<>>]

\* Index of the first LF of s, 0 when there is none.
RECURSIVE FirstLF(_, _)
FirstLF(s, i) ==
    IF i > Len(s) THEN 0 ELSE IF s[i] = LF THEN i ELSE FirstLF(s, i + 1)

\* `for line in stm` on a binary file: the lines of s, each ending with its LF.
RECURSIVE SplitLines(_)
SplitLines(s) ==
    IF s = <<>> THEN <<>>
    ELSE LET i == FirstLF(s, 1)
         IN  IF i = 0 THEN <<s>>
             ELSE <<SubSeq(s, 1, i)>> \o SplitLines(SubSeq(s, i + 1, Len(s)))

\* stm.read(n) repeated until EOF: s cut into pieces of n bytes.
RECURSIVE SplitChunks(_, _)
SplitChunks(s, n) ==
    IF s = <<>> THEN <<>>
    ELSE <<Take(s, n)>> \o SplitChunks(Drop(s, n), n)


\* ------------------------------------------------------------------------
\* State
\* ------------------------------------------------------------------------
VARIABLES
    backend,         \* the AbstractFileDelegate class in use
    stream_mapping,  \* _stream_mapping: internal key -> stream [closed, buf]
    data_mapping,    \* MemoryFileDelegate._data_mapping: internal key -> bytes
    path_mapping,    \* _path_mapping: the internal keys that have a path
    disk,            \* the files under root_path: internal key -> bytes
    written,         \* history: the bytes each key's write calls accepted
    finished,        \* history: keys whose finish_write has returned
    removed,         \* history: keys on which remove has been called
    lastRead,        \* the last read_generator call and what it yielded
    cache_mapping,   \* SimpleFileManager._cache_mapping, in insertion order
    current_size,    \* SimpleFileManager._current_size
    max_size,        \* SimpleFileManager._max_size
    max_count,       \* SimpleFileManager._max_count
    lastCall,        \* the last SimpleFileManager call and how it ended
                     \* (before: the index a vacuum() call started from)
    indexed,         \* history: internal keys given to set_file_info so far
    uploads,         \* the FileUploadHandler instances, one per PUT request
    deletes,         \* the FileInfoHandler.delete calls in flight
    running,         \* the coroutine that holds the event loop, or None
    requests,        \* the ServeFileHandler / FileInfoHandler requests
    proxy,           \* the UploadFileProxy in use
    cond,            \* the last check_if_304 call and what it returned
    parser,          \* the MultipartFormDataParser in use, its sink and input
    view,            \* the last call made through a ReadOnlyView
    twin,            \* two delegates driven by the same calls
    readers          \* the read_generator iterations in progress

delegateVars == <<backend, stream_mapping, data_mapping, path_mapping, disk,
                  written, finished, removed, lastRead>>

\* The delegate's fields as one value, for the operators below.
DState == [stream_mapping |-> stream_mapping, data_mapping |-> data_mapping,
           path_mapping |-> path_mapping, disk |-> disk]

\* io.BytesIO() / open(path, 'wb'): an open stream holding no bytes.
NewStream == [closed |-> FALSE, buf |-> <<>>]

NoRead == [key |-> NoKey, start |-> None, end |-> None, raised |-> FALSE,
           chunks |-> <<>>, committed |-> FALSE]

\* ------------------------------------------------------------------------
\* start_write
\* ------------------------------------------------------------------------
MemoryStartWrite(d, key) ==
    [d EXCEPT !.stream_mapping = DictSet(@, key, NewStream)]

SynchronousStartWrite(d, key) ==
    [d EXCEPT !.stream_mapping = DictSet(@, key, NewStream),
              !.disk = DictSet(@, key, <<>>),
              !.path_mapping = @ \cup {key}]

NativeAioStartWrite(d, key) ==
    [d EXCEPT !.stream_mapping = DictSet(@, key, NewStream),
              !.disk = DictSet(@, key, <<>>),
              !.path_mapping = @ \cup {key}]

ThreadedStartWrite(d, key) ==
    [d EXCEPT !.stream_mapping = DictSet(@, key, NewStream),
              !.disk = DictSet(@, key, <<>>)]

DelegateStartWrite(b, d, key) ==
    CASE b = "Memory" -> MemoryStartWrite(d, key)
      [] b = "Synchronous" -> SynchronousStartWrite(d, key)
      [] b = "NativeAio" -> NativeAioStartWrite(d, key)
      [] b = "Threaded" -> ThreadedStartWrite(d, key)

\* ------------------------------------------------------------------------
\* write.  Each operator gives the set of outcomes [d, raised]: a buffered
\* file object hands its buffer to the file whenever the buffer fills, which
\* depends on the buffer size, so a write may or may not reach the disk.
\* ------------------------------------------------------------------------
\* Bytes leaving a file object for its file; an unlinked file has no path.
ToDisk(dsk, key, data) ==
    IF key \in DOMAIN dsk THEN [dsk EXCEPT ![key] = @ \o data] ELSE dsk

MemoryWrite(d, key, data) ==
    IF key \in DOMAIN d.stream_mapping
    THEN {[d |-> [d EXCEPT !.stream_mapping[key].buf = @ \o data],
           raised |-> FALSE]}
    ELSE {[d |-> d, raised |-> FALSE]}

BufferedWrite(d, key, data) ==
    IF key \notin DOMAIN d.stream_mapping \/ d.stream_mapping[key].closed
    THEN {[d |-> d, raised |-> TRUE]}
    ELSE {[d |-> [d EXCEPT !.stream_mapping[key].buf = @ \o data],
           raised |-> FALSE],
          [d |-> [d EXCEPT !.stream_mapping[key].buf = <<>>,
                           !.disk = ToDisk(@, key,
                                       d.stream_mapping[key].buf \o data)],
           raised |-> FALSE]}

SynchronousWrite(d, key, data) == BufferedWrite(d, key, data)

ThreadedWrite(d, key, data) == BufferedWrite(d, key, data)

NativeAioWrite(d, key, data) ==
    IF key \notin DOMAIN d.stream_mapping \/ d.stream_mapping[key].closed
    THEN {[d |-> d, raised |-> TRUE]}
    ELSE {[d |-> [d EXCEPT !.disk = ToDisk(@, key, data)], raised |-> FALSE]}

DelegateWrite(b, d, key, data) ==
    CASE b = "Memory" -> MemoryWrite(d, key, data)
      [] b = "Synchronous" -> SynchronousWrite(d, key, data)
      [] b = "NativeAio" -> NativeAioWrite(d, key, data)
      [] b = "Threaded" -> ThreadedWrite(d, key, data)

\* ------------------------------------------------------------------------
\* finish_write: [d, raised]
\* ------------------------------------------------------------------------
\* MemoryFinishWrite with the stream left in _stream_mapping (get instead of
\* pop): later writes still reach it.
MemoryFinishWriteKeepStream(d, key) ==
    IF key \in DOMAIN d.stream_mapping
    THEN [d |-> [d EXCEPT !.data_mapping =
                              DictSet(@, key, d.stream_mapping[key].buf)],
          raised |-> FALSE]
    ELSE [d |-> d, raised |-> FALSE]

MemoryFinishWrite(d, key) ==
    IF key \in DOMAIN d.stream_mapping
    THEN [d |-> [d EXCEPT !.stream_mapping = DictPop(@, key),
                          !.data_mapping =
                              DictSet(@, key, d.stream_mapping[key].buf)],
          raised |-> FALSE]
    ELSE [d |-> d, raised |-> FALSE]

\* FileFinishWrite with the stream dropped instead of closed: what it still
\* buffers never reaches the file.
FileFinishWriteNoFlush(d, key) ==
    IF key \notin DOMAIN d.stream_mapping
    THEN [d |-> d, raised |-> TRUE]
    ELSE [d |-> [d EXCEPT !.stream_mapping[key] = [closed |-> TRUE,
                                                   buf |-> <<>>]],
          raised |-> FALSE]

\* stm.close(): the buffer goes to the file; closing twice does nothing.
FileFinishWrite(d, key) ==
    IF key \notin DOMAIN d.stream_mapping
    THEN [d |-> d, raised |-> TRUE]
    ELSE [d |-> [d EXCEPT !.stream_mapping[key] = [closed |-> TRUE,
                                                   buf |-> <<>>],
                          !.disk = ToDisk(@, key, d.stream_mapping[key].buf)],
          raised |-> FALSE]

SynchronousFinishWrite(d, key) == FileFinishWrite(d, key)

NativeAioFinishWrite(d, key) == FileFinishWrite(d, key)

ThreadedFinishWrite(d, key) == FileFinishWrite(d, key)

DelegateFinishWrite(b, d, key) ==
    CASE b = "Memory" -> MemoryFinishWrite(d, key)
      [] b = "Synchronous" -> SynchronousFinishWrite(d, key)
      [] b = "NativeAio" -> NativeAioFinishWrite(d, key)
      [] b = "Threaded" -> ThreadedFinishWrite(d, key)

\* ------------------------------------------------------------------------
\* remove
\* ------------------------------------------------------------------------
MemoryRemoveAll(d, key) == [d EXCEPT !.data_mapping = EmptyDict]

MemoryRemove(d, key) == [d EXCEPT !.data_mapping = DictPop(@, key)]

SynchronousRemove(d, key) ==
    IF key \in d.path_mapping
    THEN [d EXCEPT !.path_mapping = @ \ {key}, !.disk = DictPop(@, key)]
    ELSE d

NativeAioRemove(d, key) == d

ThreadedRemove(d, key) == d

DelegateRemove(b, d, key) ==
    CASE b = "Memory" -> MemoryRemove(d, key)
      [] b = "Synchronous" -> SynchronousRemove(d, key)
      [] b = "NativeAio" -> NativeAioRemove(d, key)
      [] b = "Threaded" -> ThreadedRemove(d, key)

\* ------------------------------------------------------------------------
\* read_generator: [raised, chunks], chunks being the values yielded in order
\* ------------------------------------------------------------------------
MemoryReadGenerator(d, key, start, end) ==
    IF key \notin DOMAIN d.data_mapping \/ d.data_mapping[key] = <<>>
    THEN [raised |-> FALSE, chunks |-> <<>>]
    ELSE LET data == d.data_mapping[key]
             s == IF start = None THEN 0 ELSE start[1]
         IN  [raised |-> FALSE, chunks |-> <<PySlice(data, s, end)>>]

\* The loop of SynchronousFileDelegate.read_generator over the lines left.
RECURSIVE SynchronousRangeLoop(_, _, _)
SynchronousRangeLoop(lines, start, end) ==
    IF lines = <<>> THEN <<>>
    ELSE LET line == Head(lines)
             to_read == end - start
             bytes_read == Len(line)
         IN  IF to_read <= 0 THEN <<>>
             ELSE IF bytes_read < to_read
             THEN <<line>> \o
                  SynchronousRangeLoop(Tail(lines), start + bytes_read, end)
             ELSE <<Take(line, to_read)>> \o
                  SynchronousRangeLoop(Tail(lines), start, end)

SynchronousReadGenerator(d, key, start, end) ==
    IF key \notin d.path_mapping
    THEN [raised |-> FALSE, chunks |-> <<>>]
    ELSE IF key \notin DOMAIN d.disk \/ (start /= None /\ start[1] < 0)
    THEN [raised |-> TRUE, chunks |-> <<>>]
    ELSE LET s == IF start = None THEN 0 ELSE start[1]
             lines == SplitLines(Drop(d.disk[key], s))
         IN  IF end = None THEN [raised |-> FALSE, chunks |-> lines]
             ELSE IF end[1] <= s THEN [raised |-> FALSE, chunks |-> <<>>]
             ELSE [raised |-> FALSE,
                   chunks |-> SynchronousRangeLoop(lines, s, end[1])]

\* The loop of NativeAioFileDelegate.read_generator over the Reader's chunks.
RECURSIVE NativeAioRangeLoop(_, _, _)
NativeAioRangeLoop(chunks, start, end) ==
    IF chunks = <<>> THEN <<>>
    ELSE LET chunk == Head(chunks)
             to_read == end - start
             bytes_read == Len(chunk)
         IN  IF to_read <= 0 THEN <<>>
             ELSE IF bytes_read < to_read
             THEN <<chunk>> \o
                  NativeAioRangeLoop(Tail(chunks), start + bytes_read, end)
             ELSE <<Take(chunk, to_read)>>

NativeAioReadGenerator(d, key, start, end) ==
    IF key \notin DOMAIN d.disk \/ (start /= None /\ start[1] < 0)
    THEN [raised |-> TRUE, chunks |-> <<>>]
    ELSE LET s == IF start = None THEN 0 ELSE start[1]
             rest == Drop(d.disk[key], s)
         IN  IF end = None
             THEN [raised |-> FALSE, chunks |-> SplitLines(rest)]
             ELSE IF end[1] <= s THEN [raised |-> FALSE, chunks |-> <<>>]
             ELSE [raised |-> FALSE,
                   chunks |-> NativeAioRangeLoop(SplitChunks(rest, BuffSize),
                                                 s, end[1])]

\* The loop of ThreadedFileDelegate.read_generator: stm.read(DEFAULT_BUFF_SIZE)
\* until EOF or until the range is served.
RECURSIVE ThreadedRangeLoop(_, _, _)
ThreadedRangeLoop(rest, start, end) ==
    LET to_read == end - start
        chunk == Take(rest, BuffSize)
        bytes_read == Len(chunk)
    IN  IF to_read <= 0 THEN <<>>
        ELSE IF bytes_read <= 0 THEN <<>>
        ELSE IF bytes_read > to_read THEN <<Take(chunk, to_read)>>
        ELSE <<chunk>> \o
             ThreadedRangeLoop(Drop(rest, BuffSize), start + bytes_read, end)

ThreadedReadGenerator(d, key, start, end) ==
    IF key \notin DOMAIN d.disk \/ (start /= None /\ start[1] < 0)
    THEN [raised |-> TRUE, chunks |-> <<>>]
    ELSE LET s == IF start = None THEN 0 ELSE start[1]
             rest == Drop(d.disk[key], s)
         IN  IF end = None
             THEN [raised |-> FALSE, chunks |-> SplitChunks(rest, BuffSize)]
             ELSE IF end[1] - s <= 0 THEN [raised |-> FALSE, chunks |-> <<>>]
             ELSE [raised |-> FALSE,
                   chunks |-> ThreadedRangeLoop(rest, s, end[1])]

DelegateReadGenerator(b, d, key, start, end) ==
    CASE b = "Memory" -> MemoryReadGenerator(d, key, start, end)
      [] b = "Synchronous" -> SynchronousReadGenerator(d, key, start, end)
      [] b = "NativeAio" -> NativeAioReadGenerator(d, key, start, end)
      [] b = "Threaded" -> ThreadedReadGenerator(d, key, start, end)

\* ------------------------------------------------------------------------
\* The storage object behind an internal key (spec.md section 3): Absent,
\* Writing or Committed, read off the delegate's own fields.
\* ------------------------------------------------------------------------
StreamOpen(d, key) ==
    key \in DOMAIN d.stream_mapping /\ ~d.stream_mapping[key].closed

ObjectState(b, d, key) ==
    CASE b = "Memory" ->
            IF key \in DOMAIN d.data_mapping THEN "Committed"
            ELSE IF key \in DOMAIN d.stream_mapping THEN "Writing"
            ELSE "Absent"
      [] b = "Synchronous" ->
            IF key \notin d.path_mapping THEN "Absent"
            ELSE IF StreamOpen(d, key) THEN "Writing"
            ELSE "Committed"
      [] b \in {"NativeAio", "Threaded"} ->
            IF key \notin DOMAIN d.disk THEN "Absent"
            ELSE IF StreamOpen(d, key) THEN "Writing"
            ELSE "Committed"

managerVars == <<cache_mapping, current_size, max_size, max_count, lastCall,
                 indexed>>
serverVars == <<uploads, deletes, running>>
auxVars == <<view, twin, readers>>
handlerVars == <<requests, proxy, cond, parser, auxVars>>
vars == <<delegateVars, managerVars, serverVars, handlerVars>>

SetDState(d) ==
    /\ stream_mapping' = d.stream_mapping
    /\ data_mapping' = d.data_mapping
    /\ path_mapping' = d.path_mapping
    /\ disk' = d.disk

\* ------------------------------------------------------------------------
\* Calls on the delegate
\* ------------------------------------------------------------------------
\* The arguments of one write call.
WriteArgs(alphabet) ==
    UNION {[1..n -> alphabet] : n \in 1..MaxChunk}

\* start_write(key) on a key fresh from generate_internal_key_from_path /
\* create_internal_key (uuid1): one that no earlier call has used.
StartWrite(key) ==
    /\ key \notin DOMAIN written
    /\ SetDState(DelegateStartWrite(backend, DState, key))
    /\ written' = DictSet(written, key, <<>>)
    /\ UNCHANGED <<backend, finished, removed, lastRead>>
    /\ UNCHANGED <<managerVars, serverVars, handlerVars>>

Write(key, data) ==
    /\ key \in DOMAIN written
    /\ Len(written[key]) + Len(data) <= MaxLen
    /\ \E r \in DelegateWrite(backend, DState, key, data) :
          /\ SetDState(r.d)
          /\ written' = IF r.raised \/ key \notin DOMAIN stream_mapping
                        THEN written
                        ELSE [written EXCEPT ![key] = @ \o data]
    /\ UNCHANGED <<backend, finished, removed, lastRead>>
    /\ UNCHANGED <<managerVars, serverVars, handlerVars>>

FinishWrite(key) ==
    /\ key \in DOMAIN written
    /\ LET r == DelegateFinishWrite(backend, DState, key)
       IN  /\ SetDState(r.d)
           /\ finished' = IF r.raised THEN finished ELSE finished \cup {key}
    /\ UNCHANGED <<backend, written, removed, lastRead>>
    /\ UNCHANGED <<managerVars, serverVars, handlerVars>>

Remove(key) ==
    /\ SetDState(DelegateRemove(backend, DState, key))
    /\ removed' = removed \cup {key}
    /\ UNCHANGED <<backend, written, finished, lastRead>>
    /\ UNCHANGED <<managerVars, serverVars, handlerVars>>

\* read_generator(key, start, end), iterated to its end.
Read(key, start, end) ==
    /\ LET r == DelegateReadGenerator(backend, DState, key, start, end)
       IN  lastRead' = [key |-> key, start |-> start, end |-> end,
                        raised |-> r.raised, chunks |-> r.chunks,
                        committed |-> key \in finished /\ key \notin removed]
    /\ UNCHANGED <<backend, stream_mapping, data_mapping, path_mapping, disk,
                   written, finished, removed>>
    /\ UNCHANGED <<managerVars, serverVars, handlerVars>>

\* ------------------------------------------------------------------------
\* Initial states
\* ------------------------------------------------------------------------
InitDelegate(backends) ==
    /\ backend \in backends
    /\ stream_mapping = EmptyDict
    /\ data_mapping = EmptyDict
    /\ path_mapping = {}
    /\ disk = EmptyDict
    /\ written = EmptyDict
    /\ finished = {}
    /\ removed = {}
    /\ lastRead = NoRead

NoCall == [op |-> "none", key |-> NoKey, arg |-> None, raised |-> FALSE,
           before |-> <<>>, returned |-> None]

InitManager(sizes, counts) ==
    /\ cache_mapping = <<>>
    /\ current_size = 0
    /\ max_size \in sizes
    /\ max_count \in counts
    /\ lastCall = NoCall
    /\ indexed = {}

InitServer ==
    /\ uploads = EmptyDict
    /\ deletes = EmptyDict
    /\ running = None

NoProxy == [error |-> FALSE, is_started |-> FALSE, is_finished |-> FALSE,
            api |-> <<>>, rets |-> <<>>, calls |-> <<>>, errs |-> <<>>,
            raised |-> FALSE]

\* The sink of the parser's tests (BasicDelegate) before any call.
NewSink == [parsed_info |-> EmptyDict, parsed_data |-> EmptyDict,
            finished_files |-> <<>>]

\* MultipartFormDataParser(sink, boundary) before any data_received; payload
\* and pos are the bytes the client sends and how many have been fed, cuts
\* the kinds of place at which the input has been split so far, calls the
\* calls made on the sink so far, in order.
NoParser == [state |-> "SEEKING_BOUNDARY", buf |-> <<>>, name |-> <<>>,
             sink |-> NewSink, payload |-> <<>>, pos |-> 0, cuts |-> {},
             calls |-> <<>>]

\* No call made through a view yet.
NoView == [op |-> "-", key |-> NoKey, raised |-> FALSE, got |-> <<>>]

\* No twin delegates in use.
NoTwin == <<>>

InitAux ==
    /\ view = NoView
    /\ twin = NoTwin
    /\ readers = EmptyDict

NoCond == [etag |-> None, last_modified |-> None, if_none_match |-> None,
           if_modified_since |-> None, result |-> FALSE, raised |-> FALSE,
           called |-> FALSE]

InitHandlers ==
    /\ requests = EmptyDict
    /\ proxy = NoProxy
    /\ cond = NoCond
    /\ parser = NoParser
    /\ InitAux

\* ------------------------------------------------------------------------
\* Spec: one delegate of any class, two keys written in any interleaving
\* ------------------------------------------------------------------------
WriterKeys == {"k1", "k2"}
\* What each writer sends: the second handle's bytes differ from the first's.
Alphabet(key) == IF key = "k1" THEN Bytes ELSE {98}

Init ==
    /\ InitDelegate(Backends)
    /\ InitManager({None}, {None})
    /\ InitServer
    /\ InitHandlers

Next ==
    \/ \E key \in WriterKeys : StartWrite(key)
    \/ \E key \in WriterKeys : \E data \in WriteArgs(Alphabet(key)) :
          Write(key, data)
    \/ \E key \in WriterKeys : FinishWrite(key)
    \/ \E key \in WriterKeys : Read(key, None, None)

Spec == Init /\ [][Next]_vars

\* ------------------------------------------------------------------------
\* SpecLifecycle: the calls of Spec and remove, in any order
\* ------------------------------------------------------------------------
NextLifecycle ==
    \/ Next
    \/ \E key \in WriterKeys : Remove(key)

SpecLifecycle == Init /\ [][NextLifecycle]_vars

\* ------------------------------------------------------------------------
\* SpecRange: one key written and committed, then read by ranges
\* ------------------------------------------------------------------------
Offsets == {None} \cup {Some(i) : i \in 0..MaxLen}

ReadRange(key, start, end) ==
    /\ key \in finished
    /\ Read(key, start, end)

NextRange ==
    \/ StartWrite("k1")
    \/ \E data \in WriteArgs(Bytes) : Write("k1", data)
    \/ FinishWrite("k1")
    \/ \E start \in Offsets, end \in Offsets : ReadRange("k1", start, end)

SpecRange == Init /\ [][NextRange]_vars

\* ------------------------------------------------------------------------
\* SimpleFileManager
\* ------------------------------------------------------------------------
Paths == {"x", "y"}

\* FileInfo(key, internal_key, size=size): _size is `size or 0`.
FileInfo(key, internal_key, size) ==
    [key |-> key, internal_key |-> internal_key, size |-> size]

\* _cache_mapping is an OrderedDict: a sequence of items [key, value], a new
\* key appended, an assignment to a key already present keeping its place.
CacheIndex(c, key) ==
    IF \E i \in 1..Len(c) : c[i].key = key
    THEN CHOOSE i \in 1..Len(c) : c[i].key = key
    ELSE 0

\* _cache_mapping.get(key)
CacheGet(c, key) ==
    IF CacheIndex(c, key) = 0 THEN None ELSE Some(c[CacheIndex(c, key)].value)

\* _cache_mapping[key] = value
CacheSet(c, key, value) ==
    IF CacheIndex(c, key) = 0
    THEN Append(c, [key |-> key, value |-> value])
    ELSE [c EXCEPT ![CacheIndex(c, key)].value = value]

\* _cache_mapping.pop(key, None), the mapping that is left
CachePop(c, key) ==
    LET i == CacheIndex(c, key)
    IN  IF i = 0 THEN c ELSE SubSeq(c, 1, i - 1) \o SubSeq(c, i + 1, Len(c))

\* The manager's mutable fields as one value.
MState == [cache_mapping |-> cache_mapping, current_size |-> current_size]

SetMState(m) ==
    /\ cache_mapping' = m.cache_mapping
    /\ current_size' = m.current_size

\* item_count
ItemCount(m) == Len(m.cache_mapping)

\* get_file_info(key)
GetFileInfo(m, key) == CacheGet(m.cache_mapping, key)

\* A set_file_info that keeps the entry a key already has.
SetFileInfoFirstWins(m, key, file_info) ==
    LET old_info == CacheGet(m.cache_mapping, key)
    IN  [m |-> IF old_info /= None THEN m
               ELSE [cache_mapping |->
                         CacheSet(m.cache_mapping, key, file_info),
                     current_size |-> m.current_size + file_info.size],
         old_info |-> old_info]

\* set_file_info(key, file_info): [m, old_info]
SetFileInfo(m, key, file_info) ==
    LET old_info == CacheGet(m.cache_mapping, key)
    IN  [m |-> [cache_mapping |-> CacheSet(m.cache_mapping, key, file_info),
                current_size |->
                    IF old_info /= None
                    THEN (m.current_size + file_info.size) - old_info[1].size
                    ELSE m.current_size + file_info.size],
         old_info |-> old_info]

\* A remove_file_info_async that looks the entry up and leaves it indexed.
RemoveFileInfoKeepsEntry(m, key) ==
    [m |-> m, item |-> CacheGet(m.cache_mapping, key)]

\* remove_file_info_async(key) up to its await: [m, item]; the caller then
\* awaits delegate.remove(item.internal_key) when item is not None.
RemoveFileInfo(m, key) ==
    LET item == CacheGet(m.cache_mapping, key)
    IN  [m |-> [cache_mapping |-> CachePop(m.cache_mapping, key),
                current_size |-> IF item /= None
                                 THEN m.current_size - item[1].size
                                 ELSE m.current_size],
         item |-> item]

\* One turn of a loop of vacuum: popitem(last=True) takes the item added
\* last, or raises KeyError on an empty mapping; what it returns is the
\* tuple (key, value), so that evaluating item.internal_key raises
\* AttributeError before delegate.remove is called.
VacuumPop(m) ==
    IF m.cache_mapping = <<>>
    THEN [m |-> m, raised |-> "KeyError"]
    ELSE [m |-> [m EXCEPT !.cache_mapping =
                     SubSeq(@, 1, Len(m.cache_mapping) - 1)],
          raised |-> "AttributeError"]

\* vacuum(): [m, raised]; raised = "" is a normal return.  No turn of either
\* loop reaches its end, so neither loop takes a second turn.
Vacuum(m, maxsize, maxcount) ==
    IF maxcount /= None /\ maxcount[1] /= 0
          /\ Len(m.cache_mapping) > maxcount[1]
    THEN VacuumPop(m)
    ELSE IF maxsize /= None /\ maxsize[1] /= 0
               /\ m.current_size > maxsize[1]
    THEN VacuumPop(m)
    ELSE [m |-> m, raised |-> ""]

\* The internal keys the index refers to.
IndexedKeys(c) == {c[i].value.internal_key : i \in 1..Len(c)}

RECURSIVE SumSizes(_)
SumSizes(c) ==
    IF c = <<>> THEN 0 ELSE Head(c).value.size + SumSizes(Tail(c))

\* --- calls on the manager, made one after the other -----------------------
\* The caller writes its objects one at a time: it starts the next one when
\* the one before is committed.
CallStartWrite(ik) ==
    /\ DOMAIN written \subseteq finished
    /\ StartWrite(ik)

\* set_file_info(key, FileInfo(key, ik, size)) for an object the caller has
\* written and committed under ik; every FileInfo has an internal key of its
\* own (create_internal_key is uuid1).
CallSetFileInfo(key, ik) ==
    /\ ik \in finished /\ ik \notin removed
    /\ ik \notin indexed
    /\ indexed' = indexed \cup {ik}
    /\ LET r == SetFileInfo(MState, key,
                            FileInfo(key, ik, Len(written[ik])))
       IN  /\ SetMState(r.m)
           /\ lastCall' = [op |-> "set_file_info", key |-> key,
                           arg |-> Some(FileInfo(key, ik, Len(written[ik]))),
                           raised |-> FALSE, before |-> <<>>,
                           returned |-> r.old_info]
    /\ UNCHANGED <<delegateVars, max_size, max_count, serverVars, handlerVars>>

\* remove_file_info_async(key), the delegate's remove included.
CallRemoveFileInfoAsync(key) ==
    /\ LET r == RemoveFileInfo(MState, key)
       IN  /\ SetMState(r.m)
           /\ IF r.item /= None
              THEN /\ SetDState(DelegateRemove(backend, DState,
                                               r.item[1].internal_key))
                   /\ removed' = removed \cup {r.item[1].internal_key}
              ELSE UNCHANGED <<stream_mapping, data_mapping, path_mapping,
                               disk, removed>>
           /\ lastCall' = [op |-> "remove_file_info_async", key |-> key,
                           arg |-> None, raised |-> FALSE, before |-> <<>>,
                           returned |-> None]
    /\ UNCHANGED <<backend, written, finished, lastRead>>
    /\ UNCHANGED <<max_size, max_count, indexed, serverVars, handlerVars>>

\* vacuum()
CallVacuum ==
    /\ LET r == Vacuum(MState, max_size, max_count)
       IN  /\ SetMState(r.m)
           /\ lastCall' = [op |-> "vacuum", key |-> NoKey, arg |-> None,
                           raised |-> r.raised /= "",
                           before |-> cache_mapping, returned |-> None]
    /\ UNCHANGED <<delegateVars, max_size, max_count, indexed, serverVars, handlerVars>>

\* ------------------------------------------------------------------------
\* SpecManager: a SimpleFileManager over a MemoryFileDelegate (as in
\* test_vacuum_size), objects written and committed, then indexed, removed
\* and vacuumed by calls made one after the other
\* ------------------------------------------------------------------------
MaxSizes == {None, Some(1), Some(2)}
MaxCounts == {None, Some(1)}

InitManagerSpec ==
    /\ InitDelegate({"Memory"})
    /\ InitManager(MaxSizes, MaxCounts)
    /\ InitServer
    /\ InitHandlers

NextManager ==
    \/ \E ik \in IKeys : CallStartWrite(ik)
    \/ \E ik \in IKeys : Write(ik, <<97>>)
    \/ \E ik \in IKeys : FinishWrite(ik)
    \/ \E key \in Paths, ik \in IKeys : CallSetFileInfo(key, ik)
    \/ \E key \in Paths : CallRemoveFileInfoAsync(key)
    \/ CallVacuum

SpecManager == InitManagerSpec /\ [][NextManager]_vars

\* ------------------------------------------------------------------------
\* The file cache server: FileUploadHandler (PUT /upload/<path>) and
\* FileInfoHandler.delete (DELETE /data/<path>) over one SimpleFileManager.
\*
\* The handlers are coroutines on one event loop.  A coroutine gives up the
\* loop only where an awaited call really suspends: the operations of
\* MemoryFileDelegate and SynchronousFileDelegate contain no await, so
\* awaiting them runs them through; start_write, write and finish_write of
\* NativeAioFileDelegate and ThreadedFileDelegate await the file library.
\* `running` names the coroutine that has not given up the loop.  What a
\* delegate operation does is placed at its call.
\* ------------------------------------------------------------------------
\* Chunks of request body per upload.
MaxBody == 1

Uploads == {"u1", "u2"}
DeleteIds == {"d1"}

\* create_internal_key(path): uuid1().hex, a key no other request gets.
CreateInternalKey(u) == IF u = "u1" THEN "k1" ELSE "k2"

\* Whether awaiting delegate operation op gives up the event loop.
Suspends(b, op) == b \in {"NativeAio", "Threaded"} /\ op /= "remove"

\* The loop after coroutine co has awaited delegate operation op.
AfterAwait(co, op) == IF Suspends(backend, op) THEN None ELSE co

HandlerOf(u) == <<"handler", u>>
ACloseOf(u) == <<"aclose", u>>
DeleteOf(d) == <<"delete", d>>

\* A callback the loop may start / a coroutine that may go on.
LoopIdle == running = None
MayContinue(co) == running = None \/ running = co

\* A put() that leaves the rollback registered.
PopAllOmitted(stack) == stack

\* AsyncExitStack.pop_all(): the callbacks move to a stack nobody closes.
PopAll(stack) == <<>>

\* prepare(), up to `await self.delegate.start_write(self.internal_key)`
Prepare(u, path) ==
    /\ LoopIdle
    /\ u \notin DOMAIN uploads
    /\ LET ik == CreateInternalKey(u)
       IN  /\ ik \notin DOMAIN written
           /\ SetDState(DelegateStartWrite(backend, DState, ik))
           /\ written' = DictSet(written, ik, <<>>)
           /\ uploads' = DictSet(uploads, u,
                  [pc |-> "prepare", path |-> path, internal_key |-> ik,
                   size |-> 0, chunks |-> 0, exit_stack |-> <<>>,
                   closed |-> FALSE, closed_at |-> "", aclose |-> 0,
                   old_info |-> None, status |-> 0, log |-> <<>>])
    /\ running' = AfterAwait(HandlerOf(u), "start_write")
    /\ UNCHANGED <<backend, finished, removed, lastRead>>
    /\ UNCHANGED <<managerVars, deletes>>
    /\ UNCHANGED handlerVars

\* prepare(), after the await: the rollback is registered.
PreparePush(u) ==
    /\ u \in DOMAIN uploads /\ uploads[u].pc = "prepare"
    /\ MayContinue(HandlerOf(u))
    /\ uploads' = [uploads EXCEPT
          ![u].exit_stack = @ \o <<"remove", "finish_write">>,
          ![u].pc = "body"]
    /\ running' = None
    /\ UNCHANGED <<delegateVars, managerVars, deletes>>
    /\ UNCHANGED handlerVars

\* on_finish(): the response is finished, aclose is put on the loop.
OnFinish(r, status) ==
    [r EXCEPT !.status = status, !.aclose = @ + 1,
              !.pc = IF status = 200 THEN "done" ELSE "failed"]

\* send_status(status_code, message) sets the status and writes a JSON
\* body; FileUploadHandler sets no response header of its own.
UploadResponseHeaders == {}

\* data_received(chunk); an exception of write ends the request with 500.
DataReceived(u, chunk) ==
    /\ LoopIdle
    /\ u \in DOMAIN uploads /\ uploads[u].pc = "body" /\ ~uploads[u].closed
    /\ uploads[u].chunks < MaxBody
    /\ LET ik == uploads[u].internal_key
       IN  \E r \in DelegateWrite(backend, DState, ik, chunk) :
              /\ SetDState(r.d)
              /\ written' = IF r.raised THEN written
                            ELSE [written EXCEPT ![ik] = @ \o chunk]
              /\ uploads' = [uploads EXCEPT ![u] =
                    LET w == [@ EXCEPT !.size = @ + Len(chunk),
                                       !.chunks = @ + 1]
                    IN  IF r.raised THEN OnFinish(w, 500) ELSE w]
    /\ running' = None
    /\ UNCHANGED <<backend, finished, removed, lastRead>>
    /\ UNCHANGED <<managerVars, deletes>>
    /\ UNCHANGED handlerVars

\* The FileInfo put() builds.
UploadInfo(r) == FileInfo(r.path, r.internal_key, r.size)

\* A put() that goes on to set_file_info before the object is finished.
PutFinishWriteOmitted(u) ==
    /\ LoopIdle
    /\ u \in DOMAIN uploads /\ uploads[u].pc = "body" /\ ~uploads[u].closed
    /\ uploads' = [uploads EXCEPT ![u].pc = "put_set"]
    /\ running' = HandlerOf(u)
    /\ UNCHANGED <<delegateVars, managerVars, deletes>>
    /\ UNCHANGED handlerVars

\* put(), up to `await self.delegate.finish_write(self.internal_key)`.  The
\* framework calls put once the whole body has arrived.
PutFinishWrite(u) ==
    /\ LoopIdle
    /\ u \in DOMAIN uploads /\ uploads[u].pc = "body" /\ ~uploads[u].closed
    /\ LET ik == uploads[u].internal_key
           r == DelegateFinishWrite(backend, DState, ik)
       IN  /\ SetDState(r.d)
           /\ finished' = IF r.raised THEN finished ELSE finished \cup {ik}
           /\ uploads' = [uploads EXCEPT ![u] =
                 LET w == [@ EXCEPT !.log = Append(@, "finish_write")]
                 IN  IF r.raised THEN OnFinish(w, 500)
                     ELSE [w EXCEPT !.pc = "put_set"]]
           /\ running' = IF r.raised THEN None
                         ELSE AfterAwait(HandlerOf(u), "finish_write")
    /\ UNCHANGED <<backend, written, removed, lastRead>>
    /\ UNCHANGED <<managerVars, deletes>>
    /\ UNCHANGED handlerVars

\* put(): set_file_info, pop_all, and on to `await self.delegate.remove(
\* old_info.internal_key)` when an entry was displaced; otherwise 200.
PutSetFileInfo(u) ==
    /\ u \in DOMAIN uploads /\ uploads[u].pc = "put_set"
    /\ MayContinue(HandlerOf(u))
    /\ LET info == UploadInfo(uploads[u])
           r == SetFileInfo(MState, uploads[u].path, info)
           w == [uploads[u] EXCEPT
                    !.old_info = r.old_info,
                    !.exit_stack = PopAll(@),
                    !.log = @ \o <<"set_file_info", "pop_all">>]
       IN  /\ SetMState(r.m)
           /\ indexed' = indexed \cup {info.internal_key}
           /\ lastCall' = [op |-> "set_file_info", key |-> uploads[u].path,
                           arg |-> Some(info), raised |-> FALSE,
                           before |-> <<>>, returned |-> r.old_info]
           /\ IF r.old_info /= None
              THEN /\ uploads' = [uploads EXCEPT ![u] =
                                     [w EXCEPT !.pc = "put_remove"]]
                   /\ running' = HandlerOf(u)
              ELSE /\ uploads' = [uploads EXCEPT ![u] = OnFinish(w, 200)]
                   /\ running' = None
    /\ UNCHANGED <<delegateVars, max_size, max_count, deletes>>
    /\ UNCHANGED handlerVars

\* The iterations of read_generator after the file of key has been unlinked
\* in delegate state d: a file that an iteration holds open keeps its content
\* for that iteration (orphan) until the iteration closes it.
Unlinked(rds, d, key) ==
    [g \in DOMAIN rds |->
        IF /\ rds[g].key = key /\ rds[g].state = "open"
           /\ rds[g].orphan = None /\ key \in DOMAIN d.disk
        THEN [rds[g] EXCEPT !.orphan = Some(d.disk[key])]
        ELSE rds[g]]

\* put(): delegate.remove(old_info.internal_key), then 200.
PutRemoveOld(u) ==
    /\ u \in DOMAIN uploads /\ uploads[u].pc = "put_remove"
    /\ MayContinue(HandlerOf(u))
    /\ LET old == uploads[u].old_info[1].internal_key
       IN  /\ SetDState(DelegateRemove(backend, DState, old))
           /\ removed' = removed \cup {old}
    /\ readers' = Unlinked(readers, DState,
                            uploads[u].old_info[1].internal_key)
    /\ uploads' = [uploads EXCEPT ![u] =
          OnFinish([@ EXCEPT !.log = Append(@, "remove_old")], 200)]
    /\ running' = AfterAwait(None, "remove")
    /\ UNCHANGED <<backend, written, finished, lastRead>>
    /\ UNCHANGED <<managerVars, deletes>>
    /\ UNCHANGED <<requests, proxy, cond, parser, view, twin>>

\* on_connection_close(): the client went away while the request was in
\* flight; aclose is put on the loop.  The framework reports a close while
\* it reads the body or waits for put() to answer, not during prepare().
ConnectionClose(u) ==
    /\ LoopIdle
    /\ u \in DOMAIN uploads
    /\ uploads[u].pc \in {"body", "put_set"}
    /\ ~uploads[u].closed
    /\ uploads' = [uploads EXCEPT ![u].closed = TRUE,
                                  ![u].closed_at = uploads[u].pc,
                                  ![u].aclose = @ + 1]
    /\ UNCHANGED <<delegateVars, managerVars, deletes, running>>
    /\ UNCHANGED handlerVars

\* _exit_stack.aclose(): the callbacks run last pushed first, each awaited;
\* what a callback raises does not stop the ones below it.
ExitStackAClose(u) ==
    /\ u \in DOMAIN uploads /\ uploads[u].aclose > 0
    /\ MayContinue(ACloseOf(u))
    /\ LET stack == uploads[u].exit_stack
           ik == uploads[u].internal_key
       IN  IF stack = <<>>
           THEN /\ uploads' = [uploads EXCEPT ![u].aclose = @ - 1]
                /\ running' = None
                /\ UNCHANGED delegateVars
           ELSE LET cb == stack[Len(stack)]
                IN  /\ uploads' = [uploads EXCEPT ![u].exit_stack =
                                      SubSeq(stack, 1, Len(stack) - 1)]
                    /\ running' = AfterAwait(ACloseOf(u), cb)
                    /\ IF cb = "finish_write"
                       THEN /\ SetDState(
                                 DelegateFinishWrite(backend, DState, ik).d)
                            /\ UNCHANGED removed
                       ELSE /\ SetDState(DelegateRemove(backend, DState, ik))
                            /\ removed' = removed \cup {ik}
                    /\ UNCHANGED <<backend, written, finished, lastRead>>
    /\ UNCHANGED <<managerVars, deletes>>
    /\ UNCHANGED handlerVars

\* delete(path): remove_file_info_async up to `await self.delegate.remove(
\* item.internal_key)`; with no entry for path it answers 200 at once.
DeleteStart(d, path) ==
    /\ LoopIdle
    /\ d \notin DOMAIN deletes
    /\ LET r == RemoveFileInfo(MState, path)
       IN  /\ SetMState(r.m)
           /\ lastCall' = [op |-> "remove_file_info_async", key |-> path,
                           arg |-> None, raised |-> FALSE, before |-> <<>>,
                           returned |-> None]
           /\ IF r.item /= None
              THEN /\ deletes' = DictSet(deletes, d,
                                         [path |-> path, item |-> r.item[1]])
                   /\ running' = DeleteOf(d)
              ELSE UNCHANGED <<deletes, running>>
    /\ UNCHANGED <<delegateVars, max_size, max_count, indexed, uploads>>
    /\ UNCHANGED handlerVars

\* delete(path): delegate.remove(item.internal_key), then 200.
DeleteRemove(d) ==
    /\ d \in DOMAIN deletes
    /\ MayContinue(DeleteOf(d))
    /\ SetDState(DelegateRemove(backend, DState,
                                deletes[d].item.internal_key))
    /\ removed' = removed \cup {deletes[d].item.internal_key}
    /\ readers' = Unlinked(readers, DState, deletes[d].item.internal_key)
    /\ deletes' = DictPop(deletes, d)
    /\ running' = AfterAwait(None, "remove")
    /\ UNCHANGED <<backend, written, finished, lastRead>>
    /\ UNCHANGED <<managerVars, uploads>>
    /\ UNCHANGED <<requests, proxy, cond, parser, view, twin>>

\* vacuum(), run from the loop.
ServerVacuum ==
    /\ LoopIdle
    /\ CallVacuum

InitServerSpec ==
    /\ InitDelegate(Backends)
    /\ InitManager({None}, MaxCounts)
    /\ InitServer
    /\ InitHandlers

NextServer ==
    \/ \E u \in Uploads, path \in Paths : Prepare(u, path)
    \/ \E u \in Uploads : PreparePush(u)
    \/ \E u \in Uploads : DataReceived(u, <<97>>)
    \/ \E u \in Uploads : PutFinishWrite(u)
    \/ \E u \in Uploads : PutSetFileInfo(u)
    \/ \E u \in Uploads : PutRemoveOld(u)
    \/ \E u \in Uploads : ConnectionClose(u)
    \/ \E u \in Uploads : ExitStackAClose(u)
    \/ \E d \in DeleteIds, path \in Paths : DeleteStart(d, path)
    \/ \E d \in DeleteIds : DeleteRemove(d)
    \/ ServerVacuum

SpecServer == InitServerSpec /\ [][NextServer]_vars

\* ------------------------------------------------------------------------
\* Conditional requests: check_if_304(file_info, headers)
\*
\* A header text is a sequence of character codes.  An absent header and an
\* empty one are both None: headers.get(name, '') makes them the same.
\* ------------------------------------------------------------------------
\* Values in an If-None-Match list; seconds on the clock.
MaxList == 2
MaxTime == 4

QUOTE == 34
COMMA == 44
SPACE == 32

\* ETags: hex digits as FileUploadHandler.put computes them, or carrying
\* their quotes as the client of test_caching_response_etag passes them.
Etags == {<<97>>, <<98>>, <<QUOTE, 97, QUOTE>>}

\* An ETag as it stands in an If-None-Match list: between quotes.
Quoted(etag) ==
    IF Len(etag) >= 2 /\ Head(etag) = QUOTE /\ etag[Len(etag)] = QUOTE
    THEN etag
    ELSE <<QUOTE>> \o etag \o <<QUOTE>>

\* The If-None-Match text a client sends for a list of ETags:
\* "v1", "v2", ...
RECURSIVE RenderIfNoneMatch(_)
RenderIfNoneMatch(values) ==
    IF values = <<>> THEN <<>>
    ELSE Quoted(Head(values))
         \o (IF Len(values) > 1 THEN <<COMMA, SPACE>> ELSE <<>>)
         \o RenderIfNoneMatch(Tail(values))

\* ETAGS_FROM_IF_NONE_MATCH_REGEX.findall(text) for the pattern "(.+)" from
\* position pos on: the leftmost quote that has a quote at least two
\* places after it opens a match, and `.+` being greedy the match runs to
\* the last such quote of the text; the search goes on behind it.
RECURSIVE RegexFindall(_, _)
RegexFindall(text, pos) ==
    LET opens == {i \in pos..Len(text) :
                     /\ text[i] = QUOTE
                     /\ \E j \in (i + 2)..Len(text) : text[j] = QUOTE}
    IN  IF opens = {} THEN <<>>
        ELSE LET i == CHOOSE x \in opens : \A y \in opens : x <= y
                 closes == {j \in (i + 2)..Len(text) : text[j] = QUOTE}
                 j == CHOOSE x \in closes : \A y \in closes : y <= x
             IN  <<SubSeq(text, i + 1, j - 1)>> \o RegexFindall(text, j + 1)

\* utils.parse_header_date(text): the timestamp a date text stands for, None
\* for a text that is no date.  A date text is written here as the second
\* it names, any other text as -1.
BadDate == -1
ParseHeaderDate(text) == IF text < 0 THEN None ELSE Some(text)
FormatHeaderDate(t) == t

\* check_if_304(file_info, headers): [result, raised]
CheckIf304(etag, last_modified, if_none_match, if_modified_since) ==
    LET etag_hit ==
            /\ etag /= None /\ etag[1] /= <<>>
            /\ if_none_match /= None
            /\ \E k \in 1..Len(RegexFindall(if_none_match[1], 1)) :
                  RegexFindall(if_none_match[1], 1)[k] = etag[1]
    IN  IF etag_hit THEN [result |-> TRUE, raised |-> FALSE]
        ELSE IF last_modified /= None /\ if_modified_since /= None
        THEN LET modified_dt == ParseHeaderDate(if_modified_since[1])
             IN  IF modified_dt = None
                 THEN [result |-> FALSE, raised |-> TRUE]
                 ELSE [result |-> modified_dt[1] <= last_modified[1],
                       raised |-> FALSE]
        ELSE [result |-> FALSE, raised |-> FALSE]

\* The lists of at most n ETags.
EtagLists(n) == UNION {[1..k -> Etags] : k \in 1..n}

IfNoneMatchTexts == {None} \cup {Some(RenderIfNoneMatch(l)) :
                                    l \in EtagLists(MaxList)}
DateTexts == {None, Some(BadDate)}
                \cup {Some(FormatHeaderDate(t)) : t \in 0..MaxTime}

\* One call of check_if_304 on the object and the headers in cond.
CallCheckIf304 ==
    /\ ~cond.called
    /\ LET r == CheckIf304(cond.etag, cond.last_modified,
                           cond.if_none_match, cond.if_modified_since)
       IN  cond' = [cond EXCEPT !.result = r.result, !.raised = r.raised,
                                !.called = TRUE]
    /\ UNCHANGED <<delegateVars, managerVars, serverVars, requests, proxy,
                   parser, auxVars>>

\* The objects and headers check_if_304 is called on.
CondInputs ==
    [etag : {None} \cup {Some(e) : e \in Etags},
     last_modified : {None} \cup {Some(t) : t \in 0..MaxTime},
     if_none_match : IfNoneMatchTexts,
     if_modified_since : DateTexts,
     result : {FALSE}, raised : {FALSE}, called : {FALSE}]

InitConditional ==
    /\ InitDelegate({"Memory"})
    /\ InitManager({None}, {None})
    /\ InitServer
    /\ requests = EmptyDict
    /\ proxy = NoProxy
    /\ cond \in CondInputs
    /\ parser = NoParser
    /\ InitAux

NextConditional == CallCheckIf304

SpecConditional == InitConditional /\ [][NextConditional]_vars

\* ------------------------------------------------------------------------
\* handlers.py: UploadFileProxy and the PUT path of ServeFileHandler
\* ------------------------------------------------------------------------
\* delegate.write as a caller sees it: what the delegate does, or, on the
\* backends that write to a file, the error of the file's write (a full
\* disk, say), which leaves the delegate as it was.
DelegateWriteOrIOError(b, d, key, data) ==
    DelegateWrite(b, d, key, data)
       \cup (IF b /= "Memory" /\ StreamOpen(d, key)
             THEN {[d |-> d, raised |-> TRUE]} ELSE {})

\* delegate.start_write as a caller sees it: on the backends that write to
\* a file the open of the file may fail, which leaves the delegate as it
\* was.
DelegateStartWriteOrIOError(b, d, key) ==
    {[d |-> DelegateStartWrite(b, d, key), raised |-> FALSE]}
       \cup (IF b /= "Memory" THEN {[d |-> d, raised |-> TRUE]} ELSE {})

\* delegate.remove as UploadFileProxy sees it, which takes any
\* AbstractFileDelegate: the delegates of file_util return normally, the
\* remove of another class may raise and leave the object as it was.
DelegateRemoveOrError(b, d, key) ==
    {[d |-> DelegateRemove(b, d, key), raised |-> FALSE],
     [d |-> d, raised |-> TRUE]}

\* Calls made on one UploadFileProxy.
MaxApi == 4

ProxyKey == "p1"
\* A method of the proxy has been called on arg and has returned value
\* (None for the methods that take or return nothing) or raised: api is the
\* methods called, rets what each was given and gave; calls is the methods called on the delegate, errs
\* whether each raised.
ProxyCall(name, arg, raised, value) ==
    [proxy EXCEPT !.api = Append(@, name),
                  !.rets = Append(@, [arg |-> arg, raised |-> raised,
                                      value |-> value]),
                  !.raised = raised]

DelegateCalled(p, name, raised) ==
    [p EXCEPT !.calls = Append(@, name), !.errs = Append(@, raised)]

\* UploadFileProxy.start(): what start_write raises goes to the caller.
ProxyStart ==
    /\ Len(proxy.api) < MaxApi
    /\ \E r \in DelegateStartWriteOrIOError(backend, DState, ProxyKey) :
          /\ SetDState(r.d)
          /\ written' = IF r.raised THEN written
                        ELSE DictSet(written, ProxyKey, <<>>)
          /\ finished' = IF r.raised THEN finished
                         ELSE finished \ {ProxyKey}
          /\ removed' = IF r.raised THEN removed ELSE removed \ {ProxyKey}
          /\ proxy' = [DelegateCalled(ProxyCall("start", None, r.raised, None),
                                      "start_write", r.raised)
                          EXCEPT !.is_started = @ \/ ~r.raised]
    /\ UNCHANGED <<backend, lastRead>>
    /\ UNCHANGED <<managerVars, serverVars, requests, cond, parser, auxVars>>

\* A mark_error that records the error and leaves the upload open.
MarkErrorKeepsOpen(p) == [p EXCEPT !.error = TRUE]

\* UploadFileProxy.mark_error(exc)
MarkError(p) == [p EXCEPT !.error = TRUE, !.is_finished = TRUE]

\* What a client passes to data_received.
ProxyChunks == {<<>>, <<97>>, <<97, 98>>}

\* UploadFileProxy.data_received(data): returns len(data) whatever happens.
ProxyDataReceived(data) ==
    /\ Len(proxy.api) < MaxApi
    /\ IF proxy.error
       THEN /\ proxy' = ProxyCall("data_received", Some(data), FALSE,
                                      Some(Len(data)))
            /\ UNCHANGED <<stream_mapping, data_mapping, path_mapping, disk,
                           written>>
       ELSE \E r \in DelegateWriteOrIOError(backend, DState, ProxyKey, data) :
               /\ SetDState(r.d)
               /\ written' = IF r.raised \/ ProxyKey \notin DOMAIN written
                             THEN written
                             ELSE [written EXCEPT ![ProxyKey] = @ \o data]
               /\ proxy' =
                     LET p == DelegateCalled(
                                 ProxyCall("data_received", Some(data),
                                           FALSE, Some(Len(data))),
                                 "write", r.raised)
                     IN  IF r.raised THEN MarkError(p) ELSE p
    /\ UNCHANGED <<backend, finished, removed, lastRead>>
    /\ UNCHANGED <<managerVars, serverVars, requests, cond, parser, auxVars>>

\* UploadFileProxy.finish(): what finish_write raises goes to the caller.
ProxyFinish ==
    /\ Len(proxy.api) < MaxApi
    /\ IF proxy.is_finished
       THEN /\ proxy' = ProxyCall("finish", None, FALSE, None)
            /\ UNCHANGED <<stream_mapping, data_mapping, path_mapping, disk,
                           finished>>
       ELSE LET r == DelegateFinishWrite(backend, DState, ProxyKey)
            IN  /\ SetDState(r.d)
                /\ finished' = IF r.raised THEN finished
                               ELSE finished \cup {ProxyKey}
                /\ proxy' = [DelegateCalled(
                                ProxyCall("finish", None, r.raised, None),
                                "finish_write", r.raised)
                                EXCEPT !.is_finished = ~r.raised]
    /\ UNCHANGED <<backend, written, removed, lastRead>>
    /\ UNCHANGED <<managerVars, serverVars, requests, cond, parser, auxVars>>

\* An aclose that rolls back and leaves the upload open.
ProxyACloseKeepsOpen ==
    /\ Len(proxy.api) < MaxApi
    /\ IF proxy.is_started /\ ~proxy.is_finished
       THEN \E r \in DelegateRemoveOrError(backend, DState, ProxyKey) :
               /\ SetDState(r.d)
               /\ removed' = IF r.raised THEN removed
                             ELSE removed \cup {ProxyKey}
               /\ proxy' = DelegateCalled(ProxyCall("aclose", None, FALSE, None),
                                          "remove", r.raised)
       ELSE /\ proxy' = [ProxyCall("aclose", None, FALSE, None) EXCEPT
                            !.is_finished = TRUE]
            /\ UNCHANGED <<stream_mapping, data_mapping, path_mapping, disk,
                           removed>>
    /\ UNCHANGED <<backend, written, finished, lastRead>>
    /\ UNCHANGED <<managerVars, serverVars, requests, cond, parser, auxVars>>

\* UploadFileProxy.aclose(): what remove raises is logged and dropped.
ProxyAClose ==
    /\ Len(proxy.api) < MaxApi
    /\ IF proxy.is_started /\ ~proxy.is_finished
       THEN \E r \in DelegateRemoveOrError(backend, DState, ProxyKey) :
               /\ SetDState(r.d)
               /\ removed' = IF r.raised THEN removed
                             ELSE removed \cup {ProxyKey}
               /\ proxy' = [DelegateCalled(ProxyCall("aclose", None, FALSE, None),
                                           "remove", r.raised)
                               EXCEPT !.is_finished = TRUE]
       ELSE /\ proxy' = [ProxyCall("aclose", None, FALSE, None) EXCEPT
                            !.is_finished = TRUE]
            /\ UNCHANGED <<stream_mapping, data_mapping, path_mapping, disk,
                           removed>>
    /\ UNCHANGED <<backend, written, finished, lastRead>>
    /\ UNCHANGED <<managerVars, serverVars, requests, cond, parser, auxVars>>

ReqIds == {"r1", "r2"}

\* generate_internal_key_from_path(path): uuid1().hex
GenerateInternalKeyFromPath(r) == IF r = "r1" THEN "s1" ELSE "s2"

\* A request as its handler starts on it; status 0: no response yet.
NewRequest(handler, method, path) ==
    [handler |-> handler, method |-> method, path |-> path,
     internal_key |-> None, error |-> FALSE, pc |-> "prepare",
     chunks |-> 0, found |-> FALSE, if_none_match |-> None,
     if_modified_since |-> None, range |-> None, etag |-> None,
     last_modified |-> None, ignore_caching |-> FALSE, checked |-> FALSE,
     read |-> FALSE, raised |-> FALSE, status |-> 0, body |-> <<>>,
     headers |-> {}]

\* send_status / set_status, and the end of the request.
Respond(q, status, body, headers) ==
    [q EXCEPT !.status = status, !.body = body, !.headers = headers,
              !.pc = "done"]

\* ServeFileHandler.prepare() of a PUT
ServePreparePut(r, path) ==
    /\ LoopIdle
    /\ r \notin DOMAIN requests
    /\ LET key == GenerateInternalKeyFromPath(r)
       IN  /\ key \notin DOMAIN written
           /\ SetDState(DelegateStartWrite(backend, DState, key))
           /\ written' = DictSet(written, key, <<>>)
           /\ requests' = DictSet(requests, r,
                 [NewRequest("ServeFileHandler", "PUT", path) EXCEPT
                     !.internal_key = Some(key), !.pc = "body"])
    /\ UNCHANGED <<backend, finished, removed, lastRead>>
    /\ UNCHANGED <<managerVars, serverVars, proxy, cond, parser, auxVars>>

\* ServeFileHandler.data_received(chunk)
ServeDataReceived(r, chunk) ==
    /\ LoopIdle
    /\ r \in DOMAIN requests /\ requests[r].pc = "body"
    /\ requests[r].chunks < MaxBody
    /\ IF requests[r].internal_key /= None /\ ~requests[r].error
       THEN LET key == requests[r].internal_key[1]
            IN  \E w \in DelegateWriteOrIOError(backend, DState, key, chunk) :
                   /\ SetDState(w.d)
                   /\ written' = IF w.raised THEN written
                                 ELSE [written EXCEPT ![key] = @ \o chunk]
                   /\ requests' = [requests EXCEPT
                                      ![r].error = w.raised,
                                      ![r].chunks = @ + 1]
       ELSE /\ requests' = [requests EXCEPT ![r].chunks = @ + 1]
            /\ UNCHANGED <<stream_mapping, data_mapping, path_mapping, disk,
                           written>>
    /\ UNCHANGED <<backend, finished, removed, lastRead>>
    /\ UNCHANGED <<managerVars, serverVars, proxy, cond, parser, auxVars>>

\* ServeFileHandler.put(path)
ServePut(r) ==
    /\ LoopIdle
    /\ r \in DOMAIN requests /\ requests[r].pc = "body"
    /\ IF requests[r].error
       THEN /\ requests' = [requests EXCEPT ![r] = Respond(@, 400, <<>>, {})]
            /\ UNCHANGED <<stream_mapping, data_mapping, path_mapping, disk,
                           finished>>
       ELSE LET key == requests[r].internal_key[1]
                f == DelegateFinishWrite(backend, DState, key)
            IN  /\ SetDState(f.d)
                /\ finished' = IF f.raised THEN finished
                               ELSE finished \cup {key}
                /\ requests' = [requests EXCEPT ![r] =
                      Respond(@, IF f.raised THEN 500 ELSE 200, <<>>, {})]
    /\ UNCHANGED <<backend, written, removed, lastRead>>
    /\ UNCHANGED <<managerVars, serverVars, proxy, cond, parser, auxVars>>

InitUpload ==
    /\ InitDelegate(Backends)
    /\ InitManager({None}, {None})
    /\ InitServer
    /\ InitHandlers

NextUpload ==
    \/ ProxyStart
    \/ \E data \in ProxyChunks : ProxyDataReceived(data)
    \/ ProxyFinish
    \/ ProxyAClose
    \/ \E path \in Paths : ServePreparePut("r1", path)
    \/ ServeDataReceived("r1", <<97>>)
    \/ ServePut("r1")

SpecUpload == InitUpload /\ [][NextUpload]_vars

\* ------------------------------------------------------------------------
\* Serving: serve_get_from_file_info, and GET / HEAD / DELETE of
\* ServeFileHandler (handlers.py) and FileInfoHandler (file_cache_server.py)
\* ------------------------------------------------------------------------
\* FileInfo.etag: __init__ drops its etag argument (self._etag = None).
FileInfoEtag(info) == None

\* FileInfo.last_modified: the property has no return statement.
FileInfoLastModified(info) == None

\* A Range header: bytes=A-B is [first |-> Some(A), last |-> Some(B)],
\* bytes=A- has no last, bytes=-N has no first.
RangeHeader(first, last) == [first |-> first, last |-> last]

\* parse_range_header(text) -> (start, end)
ParseRangeHeader(h) ==
    IF h.first /= None /\ h.last /= None
    THEN <<h.first, Some(h.last[1] + 1)>>
    ELSE IF h.first /= None THEN <<h.first, None>>
    ELSE IF h.last /= None THEN <<Some(0 - h.last[1]), None>>
    ELSE <<None, None>>

\* The chunks put in front of what has been sent instead of behind it.
RECURSIVE WriteAndFlushInFront(_, _)
WriteAndFlushInFront(chunks, sent) ==
    IF chunks = <<>> THEN sent
    ELSE WriteAndFlushInFront(Tail(chunks), Head(chunks) \o sent)

\* req_handler.write(chunk) and flush() for each chunk of the generator, in
\* the order it yields them: the bytes that have gone out.
RECURSIVE WriteAndFlush(_, _)
WriteAndFlush(chunks, sent) ==
    IF chunks = <<>> THEN sent
    ELSE WriteAndFlush(Tail(chunks), sent \o Head(chunks))

\* serve_get_from_file_info with its head_only test moved above the
\* conditional check.
ServeResponseHeadFirst(b, d, etag, last_modified, internal_key, head_only, ignore_caching, inm, ims, range) ==
    LET c == IF ignore_caching THEN [result |-> FALSE, raised |-> FALSE]
             ELSE CheckIf304(etag, last_modified, inm, ims)
        rd == DelegateReadGenerator(b, d, internal_key, None, None)
        out == [raised |-> FALSE, status |-> 0, body |-> <<>>,
                headers |-> {"Content-Type", "Accept-Ranges"},
                checked |-> ~ignore_caching, read |-> FALSE]
    IN  IF head_only THEN [out EXCEPT !.status = 204]
        ELSE IF c.raised THEN [out EXCEPT !.raised = TRUE]
        ELSE IF c.result THEN [out EXCEPT !.status = 304]
        ELSE [out EXCEPT !.raised = rd.raised, !.status = 200,
                         !.body = Flatten(rd.chunks), !.read = TRUE]

\* The body of serve_get_from_file_info for a file_info whose accessors
\* return etag, last_modified and internal_key: the response it leaves on
\* the handler, whether it raised, whether it called check_if_304 (checked)
\* and delegate.read_generator (read).
ServeResponse(b, d, etag, last_modified, internal_key, head_only, ignore_caching, inm, ims, range) ==
    LET hdrs == (IF etag /= None /\ etag[1] /= <<>> THEN {"ETag"} ELSE {})
                \cup (IF last_modified /= None
                      THEN {"Last-Modified"} ELSE {})
                \cup {"Content-Type", "Accept-Ranges"}
        c == IF ignore_caching THEN [result |-> FALSE, raised |-> FALSE]
             ELSE CheckIf304(etag, last_modified, inm, ims)
        se == IF range /= None THEN ParseRangeHeader(range[1])
              ELSE <<None, None>>
        partial == ~(se[1] = None /\ se[2] = None)
        rd == DelegateReadGenerator(b, d, internal_key, se[1], se[2])
        out == [raised |-> FALSE, status |-> 0, body |-> <<>>,
                headers |-> hdrs, checked |-> ~ignore_caching,
                read |-> FALSE]
    IN  IF c.raised THEN [out EXCEPT !.raised = TRUE]
        ELSE IF c.result THEN [out EXCEPT !.status = 304]
        ELSE IF head_only THEN [out EXCEPT !.status = 204]
        ELSE [out EXCEPT !.raised = rd.raised,
                         !.status = IF partial THEN 206 ELSE 200,
                         !.body = WriteAndFlush(rd.chunks, <<>>),
                         !.read = TRUE]

\* serve_get_from_file_info(delegate, file_info, req_handler, head_only) on
\* a FileInfo, as the handlers call it (ignore_caching left False).
ServeGetFromFileInfo(b, d, info, head_only, inm, ims, range) ==
    ServeResponse(b, d, FileInfoEtag(info), FileInfoLastModified(info),
                  info.internal_key, head_only, FALSE, inm, ims, range)

\* get(path) and head(path), the same code in ServeFileHandler and in
\* FileInfoHandler: 404 without entry, 500 on an exception.
ServeGet(r, handler, head_only, path, inm, ims, range) ==
    /\ LoopIdle
    /\ r \notin DOMAIN requests
    /\ LET item == GetFileInfo(MState, path)
           q == [NewRequest(handler, IF head_only THEN "HEAD" ELSE "GET",
                            path)
                    EXCEPT !.found = item /= None, !.if_none_match = inm,
                           !.if_modified_since = ims, !.range = range]
       IN  IF item = None
           THEN requests' = DictSet(requests, r, Respond(q, 404, <<>>, {}))
           ELSE LET s == ServeGetFromFileInfo(backend, DState, item[1],
                                              head_only, inm, ims, range)
                    served == [q EXCEPT !.checked = s.checked,
                                        !.read = s.read]
                IN  requests' = DictSet(requests, r,
                       IF s.raised
                       THEN Respond(served, 500, <<>>, s.headers)
                       ELSE Respond(served, s.status, s.body, s.headers))
    /\ UNCHANGED <<delegateVars, managerVars, serverVars, proxy, cond, parser, auxVars>>

\* DELETE on ServeFileHandler: the class defines no delete(), so the
\* framework's RequestHandler.delete answers 405.
ServeDelete(r, path) ==
    /\ LoopIdle
    /\ r \notin DOMAIN requests
    /\ requests' = DictSet(requests, r,
          Respond([NewRequest("ServeFileHandler", "DELETE", path)
                      EXCEPT !.found = GetFileInfo(MState, path) /= None],
                  405, <<>>, {}))
    /\ UNCHANGED <<delegateVars, managerVars, serverVars, proxy, cond, parser, auxVars>>

\* FileInfoHandler.delete(path), the whole handler in one step:
\* remove_file_info_async and delegate.remove never give up the loop.
InfoDelete(r, path) ==
    /\ LoopIdle
    /\ r \notin DOMAIN requests
    /\ LET rm == RemoveFileInfo(MState, path)
       IN  /\ SetMState(rm.m)
           /\ lastCall' = [op |-> "remove_file_info_async", key |-> path,
                           arg |-> None, raised |-> FALSE, before |-> <<>>,
                           returned |-> None]
           /\ IF rm.item /= None
              THEN /\ SetDState(DelegateRemove(backend, DState,
                                               rm.item[1].internal_key))
                   /\ removed' = removed \cup {rm.item[1].internal_key}
              ELSE UNCHANGED <<stream_mapping, data_mapping, path_mapping,
                               disk, removed>>
           /\ requests' = DictSet(requests, r,
                 Respond([NewRequest("FileInfoHandler", "DELETE", path)
                             EXCEPT !.found = rm.item /= None],
                         200, <<>>, {}))
    /\ UNCHANGED <<backend, written, finished, lastRead>>
    /\ UNCHANGED <<max_size, max_count, indexed>>
    /\ UNCHANGED <<serverVars, proxy, cond, parser, auxVars>>

\* The response is out and the handler object is dropped.
RequestDone(r) ==
    /\ r \in DOMAIN requests /\ requests[r].pc = "done"
    /\ requests' = DictPop(requests, r)
    /\ UNCHANGED <<delegateVars, managerVars, serverVars, proxy, cond, parser, auxVars>>

\* The client sends its requests one after the other, each when the one
\* before it is over, and stays connected.
NoRequestInFlight ==
    /\ running = None /\ deletes = EmptyDict
    /\ \A u \in DOMAIN uploads :
          uploads[u].pc \in {"done", "failed"} /\ uploads[u].aclose = 0
    /\ requests = EmptyDict

PutReq == "r1"
ReadReq == "r2"
ServeHandlers == {"ServeFileHandler", "FileInfoHandler"}
ServeIfNoneMatch == {None, Some(RenderIfNoneMatch(<<<<97>>>>))}
ServeIfModifiedSince == {None}
ServeRanges == {None, Some(RangeHeader(Some(0), Some(0)))}

InitServe ==
    /\ InitDelegate(Backends)
    /\ InitManager({None}, {None})
    /\ InitServer
    /\ InitHandlers

NextServe ==
    \/ \E path \in Paths :
          NoRequestInFlight /\ ServePreparePut(PutReq, path)
    \/ ServeDataReceived(PutReq, <<97>>)
    \/ ServePut(PutReq)
    \/ \E handler \in ServeHandlers, head_only \in BOOLEAN,
          path \in Paths, inm \in ServeIfNoneMatch,
          ims \in ServeIfModifiedSince, range \in ServeRanges :
             /\ NoRequestInFlight
             /\ ServeGet(ReadReq, handler, head_only, path, inm, ims, range)
    \/ \E path \in Paths : NoRequestInFlight /\ ServeDelete(ReadReq, path)
    \/ \E path \in Paths : NoRequestInFlight /\ InfoDelete(ReadReq, path)
    \/ \E r \in ReqIds : RequestDone(r)
    \/ \E u \in Uploads, path \in Paths :
          NoRequestInFlight /\ Prepare(u, path)
    \/ \E u \in Uploads : PreparePush(u)
    \/ \E u \in Uploads : DataReceived(u, <<97>>)
    \/ \E u \in Uploads : PutFinishWrite(u)
    \/ \E u \in Uploads : PutSetFileInfo(u)
    \/ \E u \in Uploads : PutRemoveOld(u)
    \/ \E u \in Uploads : ExitStackAClose(u)

SpecServe == InitServe /\ [][NextServe]_vars

\* ------------------------------------------------------------------------
\* SpecServeCall: serve_get_from_file_info called on a committed object,
\* for any file_info attributes, flags and request headers
\* ------------------------------------------------------------------------
ServeKey == "k1"
ServeEtags == {None, Some(<<97>>)}
ServeLastModified == {None, Some(1)}
CallIfNoneMatch ==
    {None, Some(RenderIfNoneMatch(<<<<97>>>>)),
     Some(RenderIfNoneMatch(<<<<98>>>>))}
CallIfModifiedSince == {None, Some(BadDate), Some(0)}

\* Range headers: absent, a text that is no range, bytes=A-B, bytes=A-,
\* bytes=-N.
CallRanges ==
    {None, Some(RangeHeader(None, None))}
    \cup {Some(RangeHeader(Some(0), Some(0))),
          Some(RangeHeader(Some(1), Some(0)))}
    \cup {Some(RangeHeader(Some(1), None)), Some(RangeHeader(None, Some(1)))}

CallServe(r, etag, last_modified, head_only, ignore_caching, inm, ims, range) ==
    /\ ServeKey \in finished
    /\ r \notin DOMAIN requests
    /\ LET s == ServeResponse(backend, DState, etag, last_modified,
                              ServeKey, head_only, ignore_caching, inm, ims,
                              range)
       IN  requests' = DictSet(requests, r,
              [NewRequest("serve_get_from_file_info",
                          IF head_only THEN "HEAD" ELSE "GET", "x")
                  EXCEPT !.internal_key = Some(ServeKey), !.found = TRUE,
                         !.etag = etag, !.last_modified = last_modified,
                         !.ignore_caching = ignore_caching,
                         !.if_none_match = inm, !.if_modified_since = ims,
                         !.range = range, !.checked = s.checked,
                         !.read = s.read, !.raised = s.raised,
                         !.status = s.status, !.body = s.body,
                         !.headers = s.headers, !.pc = "done"])
    /\ UNCHANGED <<delegateVars, managerVars, serverVars, proxy, cond, parser, auxVars>>

NextServeCall ==
    \/ StartWrite(ServeKey)
    \/ \E data \in WriteArgs(Bytes) : Write(ServeKey, data)
    \/ FinishWrite(ServeKey)
    \/ \E etag \in ServeEtags, last_modified \in ServeLastModified,
          head_only \in BOOLEAN, ignore_caching \in BOOLEAN,
          inm \in CallIfNoneMatch, ims \in CallIfModifiedSince,
          range \in CallRanges :
             CallServe(ReadReq, etag, last_modified, head_only,
                       ignore_caching, inm, ims, range)

SpecServeCall == Init /\ [][NextServeCall]_vars

\* ------------------------------------------------------------------------
\* file_util/_parser.py: MultipartFormDataParser
\* ------------------------------------------------------------------------
CR == 13
DASH == 45
COLON == 58
CRLF == <<CR, LF>>

\* A header line is written as its field, a colon and its value, a byte
\* each: Content-Disposition, whose value stands for the part's name, and
\* Content-Type.
ContentDisposition == 100
ContentType == 116

\* The boundary the parser is built with, and the marker that separates the
\* parts: two dashes and the boundary.
Boundary == <<DASH, 66>>
Marker == <<DASH, DASH>> \o Boundary

IsPrefix(s, t) == Len(s) <= Len(t) /\ SubSeq(t, 1, Len(s)) = s

\* Index of the first occurrence of needle in hay, 0 when there is none.
Find(hay, needle) ==
    LET hits == {i \in 1..(Len(hay) - Len(needle) + 1) :
                    SubSeq(hay, i, i + Len(needle) - 1) = needle}
    IN  IF hits = {} THEN 0 ELSE CHOOSE i \in hits : \A j \in hits : i <= j

\* The carry-over that keeps only an incomplete marker, not the CRLF in
\* front of it.
HeldBackMarkerOnly(buf) ==
    LET cands == {n \in 0..Len(buf) :
                    /\ n < Len(Marker)
                    /\ IsPrefix(SubSeq(buf, Len(buf) - n + 1, Len(buf)),
                                Marker)}
    IN  CHOOSE n \in cands : \A m \in cands : m <= n

\* The carry-over: the length of the longest tail of buf that could be the
\* beginning of a marker, or of the CRLF in front of one that is stripped
\* from the body.
HeldBack(buf) ==
    LET cands == {n \in 0..Len(buf) :
                    LET tail == SubSeq(buf, Len(buf) - n + 1, Len(buf))
                    IN  \/ n < Len(Marker) /\ IsPrefix(tail, Marker)
                        \/ /\ n < Len(CRLF \o Marker)
                           /\ IsPrefix(tail, CRLF \o Marker)}
    IN  CHOOSE n \in cands : \A m \in cands : m <= n

\* The sink's three callbacks, as BasicDelegate implements them.
StartNewFile(sink, name, headers) ==
    [sink EXCEPT !.parsed_info = DictSet(@, name, headers)]

FileDataReceived(sink, name, data) ==
    [sink EXCEPT !.parsed_data =
        IF name \in DOMAIN @ THEN [@ EXCEPT ![name] = @ \o data]
        ELSE DictSet(@, name, data)]

FinishFile(sink, name) ==
    [sink EXCEPT !.finished_files = Append(@, name)]

\* The lines of a header block.
RECURSIVE HeaderLines(_)
HeaderLines(block) ==
    IF block = <<>> THEN <<>>
    ELSE LET i == Find(block, CRLF)
         IN  IF i = 0 THEN <<block>>
             ELSE <<SubSeq(block, 1, i - 1)>>
                     \o HeaderLines(Drop(block, i + 1))

\* The header fields of a block, in order, and the name among them.
ParseHeaders(block) ==
    LET lines == HeaderLines(block)
    IN  [k \in 1..Len(lines) |->
            [field |-> Take(lines[k], 1), value |-> Drop(lines[k], 2)]]

PartName(headers) ==
    LET ks == {k \in 1..Len(headers) :
                  headers[k].field = <<ContentDisposition>>}
    IN  IF ks = {} THEN <<>>
        ELSE headers[CHOOSE k \in ks : \A j \in ks : k <= j].value

StripCRLF(data) ==
    IF Len(data) >= 2 /\ Drop(data, Len(data) - 2) = CRLF
    THEN Take(data, Len(data) - 2) ELSE data

\* The parser's one way of calling the sink, with finish_file left out.
CallSinkNoFinish(p, op, name, arg) ==
    IF op = "finish_file" THEN p
    ELSE [p EXCEPT
            !.sink = IF op = "start_new_file"
                     THEN StartNewFile(@, name, arg)
                     ELSE FileDataReceived(@, name, arg),
            !.calls = Append(@, [op |-> op, name |-> name, arg |-> arg])]

\* The parser's one way of calling the sink: start_new_file(name, headers),
\* file_data_received(name, data) or finish_file(name).
CallSink(p, op, name, arg) ==
    [p EXCEPT
        !.sink = CASE op = "start_new_file" -> StartNewFile(@, name, arg)
                   [] op = "file_data_received" ->
                         FileDataReceived(@, name, arg)
                   [] op = "finish_file" -> FinishFile(@, name),
        !.calls = Append(@, [op |-> op, name |-> name, arg |-> arg])]

\* The state machine run on what is buffered until it needs more bytes.
RECURSIVE Process(_)
Process(p) ==
    CASE p.state = "SEEKING_BOUNDARY" ->
            LET i == Find(p.buf, Marker)
                after == Drop(p.buf, i + Len(Marker) - 1)
            IN  IF i = 0
                THEN [p EXCEPT !.buf = Drop(@, Len(@) - HeldBack(@))]
                ELSE IF Len(after) < 2
                THEN [p EXCEPT !.buf = Drop(@, i - 1)]
                ELSE IF Take(after, 2) = <<DASH, DASH>>
                THEN [p EXCEPT !.state = "DONE", !.buf = <<>>]
                ELSE Process([p EXCEPT !.state = "PARSING_HEADERS",
                                       !.buf = Drop(after, 2)])
      [] p.state = "PARSING_HEADERS" ->
            LET i == Find(p.buf, CRLF \o CRLF)
                headers == ParseHeaders(Take(p.buf, i - 1))
                name == PartName(headers)
            IN  IF i = 0 THEN p
                ELSE Process([CallSink(p, "start_new_file", name, headers)
                        EXCEPT !.state = "STREAMING_BODY",
                               !.buf = Drop(@, i + 3),
                               !.name = name])
      [] p.state = "STREAMING_BODY" ->
            LET i == Find(p.buf, Marker)
                data == IF i = 0
                        THEN Take(p.buf, Len(p.buf) - HeldBack(p.buf))
                        ELSE StripCRLF(Take(p.buf, i - 1))
                q == IF data = <<>> THEN p
                     ELSE CallSink(p, "file_data_received", p.name, data)
            IN  IF i = 0
                THEN [q EXCEPT !.buf = Drop(@, Len(data))]
                ELSE Process([CallSink(q, "finish_file", p.name, <<>>)
                        EXCEPT !.state = "SEEKING_BOUNDARY",
                               !.buf = Drop(@, i - 1)])
      [] p.state = "DONE" -> [p EXCEPT !.buf = <<>>]

\* data_received(chunk)
ParserDataReceived(p, chunk) == Process([p EXCEPT !.buf = @ \o chunk])

\* ------------------------------------------------------------------------
\* SpecParser: one payload fed to a parser in chunks cut at any places
\* ------------------------------------------------------------------------
\* Body bytes that begin like a marker and are none.
Lookalike == Take(Marker, 3) \o <<COMMA>>

Part(name, more, body) ==
    Marker \o CRLF \o <<ContentDisposition, COLON>> \o name \o CRLF
        \o more \o CRLF \o body

Closing == Marker \o <<DASH, DASH>> \o CRLF

\* MULTIPART_DATA of the tests: two parts, the second with a Content-Type
\* and a body that holds line feeds and a marker lookalike.
TestPayload ==
    Part(<<97>>, <<>>, <<97>>)
        \o Part(<<98>>, <<ContentType, COLON, 99>> \o CRLF,
                <<99, LF>> \o Lookalike \o <<LF>>)
        \o Closing

\* Bodies of one-part payloads: empty, with a CRLF inside, with a CRLF in
\* front of the marker, a lone dash or CR in front of the marker.
PartBodies ==
    {<<>>, <<97>> \o CRLF \o <<98>>, <<97>> \o CRLF, CRLF \o CRLF,
     <<DASH>>, <<97, CR>>, Lookalike}

Payloads ==
    {TestPayload} \cup {Part(<<97>>, <<>>, body) \o Closing :
                           body \in PartBodies}

\* pos is strictly inside an occurrence of pat in payload.
Inside(payload, pos, pat) ==
    \E s \in 1..(Len(payload) - Len(pat) + 1) :
       /\ SubSeq(payload, s, s + Len(pat) - 1) = pat
       /\ s <= pos /\ pos < s + Len(pat) - 1

CutKinds(payload, pos) ==
    (IF Inside(payload, pos, Marker) THEN {"marker"} ELSE {})
    \cup (IF \/ Inside(payload, pos, <<ContentDisposition, COLON>>)
             \/ Inside(payload, pos, <<ContentType, COLON>>)
          THEN {"header"} ELSE {})
    \cup (IF Inside(payload, pos, Lookalike) THEN {"lookalike"} ELSE {})
    \cup (IF Inside(payload, pos, CRLF \o Take(Marker, 1))
          THEN {"crlf"} ELSE {})

InitParser ==
    /\ InitDelegate({"Memory"})
    /\ InitManager({None}, {None})
    /\ InitServer
    /\ requests = EmptyDict
    /\ proxy = NoProxy
    /\ cond = NoCond
    /\ parser \in {[NoParser EXCEPT !.payload = payload] :
                      payload \in Payloads}
    /\ InitAux

\* data_received on the next n bytes of the payload.
Feed(n) ==
    /\ parser.pos + n <= Len(parser.payload)
    /\ LET chunk == SubSeq(parser.payload, parser.pos + 1, parser.pos + n)
           pos == parser.pos + n
       IN  parser' = [ParserDataReceived(parser, chunk) EXCEPT
                         !.pos = pos,
                         !.cuts = IF pos < Len(parser.payload)
                                  THEN @ \cup CutKinds(parser.payload, pos)
                                  ELSE @]
    /\ UNCHANGED <<delegateVars, managerVars, serverVars, requests, proxy,
                   cond, auxVars>>

NextParser == \E n \in 0..(Len(parser.payload) - parser.pos) : Feed(n)

SpecParser == InitParser /\ [][NextParser]_vars

\* ------------------------------------------------------------------------
\* ReadOnlyDelegate: a view of a delegate and its index
\* ------------------------------------------------------------------------
MutatingOps == {"start_write", "write", "finish_write", "remove"}

\* A view whose remove is passed on to the wrapped delegate.
ViewMutateForwardsRemove(b, d, op, key) ==
    IF op = "remove" THEN [d |-> DelegateRemove(b, d, key), raised |-> FALSE]
    ELSE [d |-> d, raised |-> TRUE]

\* start_write, write, finish_write and remove of the view: each fails at
\* once and leaves the wrapped delegate d alone.  [d, raised]
ViewMutate(b, d, op, key) == [d |-> d, raised |-> TRUE]

\* read_generator and get_file_info of the view: those of what it wraps.
ViewReadGenerator(b, d, key, start, end) ==
    DelegateReadGenerator(b, d, key, start, end)

ViewGetFileInfo(m, key) == GetFileInfo(m, key)

ViewCall(op, key) ==
    /\ LET r == ViewMutate(backend, DState, op, key)
       IN  /\ SetDState(r.d)
           /\ view' = [op |-> op, key |-> key, raised |-> r.raised,
                       got |-> <<>>]
    /\ UNCHANGED <<backend, written, finished, removed, lastRead>>
    /\ UNCHANGED <<managerVars, serverVars, requests, proxy, cond, parser,
                   twin, readers>>

ViewRead(key) ==
    /\ LET r == ViewReadGenerator(backend, DState, key, None, None)
       IN  view' = [op |-> "read_generator", key |-> key,
                    raised |-> r.raised, got |-> r.chunks]
    /\ UNCHANGED <<delegateVars, managerVars, serverVars, requests, proxy,
                   cond, parser, twin, readers>>

ViewInfo(key) ==
    /\ view' = [op |-> "get_file_info", key |-> key, raised |-> FALSE,
                got |-> ViewGetFileInfo(MState, key)]
    /\ UNCHANGED <<delegateVars, managerVars, serverVars, requests, proxy,
                   cond, parser, twin, readers>>

\* The object the wrapped delegate is given, the key the test then tries to
\* start through the view, and the name the object is indexed under.
ViewKey == "k1"
ViewNewKey == "k2"
ViewPath == "x"

NextReadOnly ==
    \/ StartWrite(ViewKey)
    \/ \E data \in WriteArgs(Bytes) : Write(ViewKey, data)
    \/ FinishWrite(ViewKey)
    \/ CallSetFileInfo(ViewPath, ViewKey)
    \/ Remove(ViewKey)
    \/ \E op \in MutatingOps, key \in {ViewKey, ViewNewKey} :
          ViewCall(op, key)
    \/ \E key \in {ViewKey, ViewNewKey} : ViewRead(key)
    \/ ViewInfo(ViewPath)

SpecReadOnly == Init /\ [][NextReadOnly]_vars

\* ------------------------------------------------------------------------
\* SpecTwin: a MemoryFileDelegate and a SynchronousFileDelegate given the
\* same calls
\* ------------------------------------------------------------------------
NewDState == [stream_mapping |-> EmptyDict, data_mapping |-> EmptyDict,
              path_mapping |-> {}, disk |-> EmptyDict]

\* What a call gave its caller: whether it raised and the bytes it yielded.
Outcome(raised, bytes) == [raised |-> raised, bytes |-> bytes]

\* mem and sync are the two delegates, n the bytes passed to write so far,
\* last the last call and what each delegate gave.
NewTwin == [mem |-> NewDState, sync |-> NewDState, n |-> 0,
            last |-> [op |-> "-", key |-> NoKey,
                      mem |-> Outcome(FALSE, <<>>),
                      sync |-> Outcome(FALSE, <<>>)]]

TwinKeys == {"k1", "k2"}

InitTwin ==
    /\ InitDelegate({"Memory"})
    /\ InitManager({None}, {None})
    /\ InitServer
    /\ requests = EmptyDict
    /\ proxy = NoProxy
    /\ cond = NoCond
    /\ parser = NoParser
    /\ view = NoView
    /\ readers = EmptyDict
    /\ twin = NewTwin

TwinUnchanged ==
    UNCHANGED <<delegateVars, managerVars, serverVars, requests, proxy, cond,
                parser, view, readers>>

TwinStartWrite(key) ==
    /\ twin' = [twin EXCEPT
          !.mem = DelegateStartWrite("Memory", @, key),
          !.sync = DelegateStartWrite("Synchronous", @, key),
          !.last = [op |-> "start_write", key |-> key,
                    mem |-> Outcome(FALSE, <<>>),
                    sync |-> Outcome(FALSE, <<>>)]]
    /\ TwinUnchanged

TwinWrite(key, data) ==
    /\ twin.n + Len(data) <= MaxLen
    /\ \E rm \in DelegateWrite("Memory", twin.mem, key, data),
          rs \in DelegateWrite("Synchronous", twin.sync, key, data) :
          twin' = [twin EXCEPT
             !.mem = rm.d, !.sync = rs.d, !.n = @ + Len(data),
             !.last = [op |-> "write", key |-> key,
                       mem |-> Outcome(rm.raised, <<>>),
                       sync |-> Outcome(rs.raised, <<>>)]]
    /\ TwinUnchanged

TwinFinishWrite(key) ==
    /\ LET rm == DelegateFinishWrite("Memory", twin.mem, key)
           rs == DelegateFinishWrite("Synchronous", twin.sync, key)
       IN  twin' = [twin EXCEPT
              !.mem = rm.d, !.sync = rs.d,
              !.last = [op |-> "finish_write", key |-> key,
                        mem |-> Outcome(rm.raised, <<>>),
                        sync |-> Outcome(rs.raised, <<>>)]]
    /\ TwinUnchanged

TwinRead(key) ==
    /\ LET rm == DelegateReadGenerator("Memory", twin.mem, key, None, None)
           rs == DelegateReadGenerator("Synchronous", twin.sync, key,
                                       None, None)
       IN  twin' = [twin EXCEPT
              !.last = [op |-> "read_generator", key |-> key,
                        mem |-> Outcome(rm.raised, Flatten(rm.chunks)),
                        sync |-> Outcome(rs.raised, Flatten(rs.chunks))]]
    /\ TwinUnchanged

TwinRemove(key) ==
    /\ twin' = [twin EXCEPT
          !.mem = DelegateRemove("Memory", @, key),
          !.sync = DelegateRemove("Synchronous", @, key),
          !.last = [op |-> "remove", key |-> key,
                    mem |-> Outcome(FALSE, <<>>),
                    sync |-> Outcome(FALSE, <<>>)]]
    /\ TwinUnchanged

NextTwin ==
    \/ \E key \in TwinKeys : TwinStartWrite(key)
    \/ \E key \in TwinKeys : \E data \in WriteArgs(Bytes) :
          TwinWrite(key, data)
    \/ \E key \in TwinKeys : TwinFinishWrite(key)
    \/ \E key \in TwinKeys : TwinRead(key)
    \/ \E key \in TwinKeys : TwinRemove(key)

SpecTwin == InitTwin /\ [][NextTwin]_vars

\* ------------------------------------------------------------------------
\* SpecReaders: read_generator iterations over one committed object, their
\* steps interleaved
\* ------------------------------------------------------------------------
\* A generator read_generator(key) has returned, before its first step.
\* state is "new", "open" (it has yielded) or "done"; pos is how far into
\* the file it has read, got the chunks it has yielded; orphan holds the
\* file's content once the file has been unlinked under an open generator.
NewReader(key) ==
    [key |-> key, state |-> "new", pos |-> 0, got |-> <<>>,
     raised |-> FALSE, orphan |-> None]

\* An open file that goes with its unlinking.
ReaderStoreUnlinked(d, rd) == d

\* The file a generator reads: an open file outlives its unlinking.
ReaderStore(d, rd) ==
    IF rd.orphan = None \/ rd.state # "open" THEN d
    ELSE [d EXCEPT !.disk = DictSet(@, rd.key, rd.orphan[1]),
                   !.path_mapping = @ \cup {rd.key}]

\* A generator that returns after its first chunk on every backend.
ReaderChunksOnce(b, d, rd) ==
    IF rd.state = "new" THEN DelegateReadGenerator(b, d, rd.key, None, None)
    ELSE [raised |-> FALSE, chunks |-> <<>>]

\* What the generator has left to yield when it is resumed: a
\* MemoryFileDelegate generator takes the data at its first step and yields
\* it in one piece, the others read on from where their own file stands.
ReaderChunks(b, d, rd) ==
    IF b = "Memory"
    THEN IF rd.state = "new" THEN MemoryReadGenerator(d, rd.key, None, None)
         ELSE [raised |-> FALSE, chunks |-> <<>>]
    ELSE DelegateReadGenerator(b, ReaderStore(d, rd), rd.key,
                               IF rd.pos = 0 THEN None ELSE Some(rd.pos),
                               None)

\* One step of the iteration: up to the next yield, the end or an error.
ReaderNext(b, d, rd) ==
    LET r == ReaderChunks(b, d, rd)
    IN  IF rd.state = "done" THEN rd
        ELSE IF r.raised THEN [rd EXCEPT !.state = "done", !.raised = TRUE]
        ELSE IF r.chunks = <<>> THEN [rd EXCEPT !.state = "done"]
        ELSE [rd EXCEPT !.state = "open",
                        !.got = Append(@, Head(r.chunks)),
                        !.pos = @ + Len(Head(r.chunks))]

ReaderIds == {"g1", "g2"}
ReadKey == "k1"

ReadersUnchanged ==
    UNCHANGED <<delegateVars, managerVars, serverVars, requests, proxy, cond,
                parser, view, twin>>

\* read_generator(key) on a committed object.
ReaderOpen(g) ==
    /\ g \notin DOMAIN readers
    /\ ReadKey \in finished
    /\ readers' = DictSet(readers, g, NewReader(ReadKey))
    /\ ReadersUnchanged

\* The consumer asks for the next chunk.
ReaderStep(g) ==
    /\ g \in DOMAIN readers
    /\ readers[g].state # "done"
    /\ readers' = [readers EXCEPT ![g] = ReaderNext(backend, DState, @)]
    /\ ReadersUnchanged

\* The consumer drops a generator that has ended.
ReaderClose(g) ==
    /\ g \in DOMAIN readers
    /\ readers[g].state = "done"
    /\ readers' = DictPop(readers, g)
    /\ ReadersUnchanged

NextReaders ==
    \/ StartWrite(ReadKey)
    \/ \E data \in WriteArgs(Bytes) : Write(ReadKey, data)
    \/ FinishWrite(ReadKey)
    \/ \E g \in ReaderIds : ReaderOpen(g)
    \/ \E g \in ReaderIds : ReaderStep(g)
    \/ \E g \in ReaderIds : ReaderClose(g)

SpecReaders == Init /\ [][NextReaders]_vars

\* ------------------------------------------------------------------------
\* SpecStream: a GET of the file cache server streaming an object chunk by
\* chunk while PUT and DELETE requests for the same path run through
\* ------------------------------------------------------------------------
StreamIds == {"g1"}
StreamPath == "x"
\* The body of an upload: two lines, so that a read of it has two chunks on
\* the backends that read by lines.
StreamBody == <<LF, 97>>

StreamUnchanged ==
    UNCHANGED <<delegateVars, managerVars, serverVars, requests, proxy, cond,
                parser, view, twin>>

\* FileInfoHandler.get(path) up to the first point where it gives up the
\* loop: get_file_info, then serve_get_from_file_info up to its
\* `async for`, whose first step runs without a pause on the delegates that
\* open and read without awaiting and waits for the file library on the
\* others.
StreamGet(g, path) ==
    /\ LoopIdle
    /\ g \notin DOMAIN readers
    /\ GetFileInfo(MState, path) /= None
    /\ LET rd == NewReader(GetFileInfo(MState, path)[1].internal_key)
       IN  readers' = DictSet(readers, g,
                              IF Suspends(backend, "open") THEN rd
                              ELSE ReaderNext(backend, DState, rd))
    /\ StreamUnchanged

\* The handler comes back from `await req_handler.flush()` (or from the
\* file library) and takes the next chunk.
StreamStep(g) ==
    /\ LoopIdle
    /\ g \in DOMAIN readers
    /\ readers[g].state # "done"
    /\ readers' = [readers EXCEPT ![g] = ReaderNext(backend, DState, @)]
    /\ StreamUnchanged

\* The response is complete and the request over.
StreamEnd(g) ==
    /\ LoopIdle
    /\ g \in DOMAIN readers
    /\ readers[g].state = "done"
    /\ readers' = DictPop(readers, g)
    /\ StreamUnchanged

NextStream ==
    \/ \E u \in Uploads : Prepare(u, StreamPath)
    \/ \E u \in Uploads : PreparePush(u)
    \/ \E u \in Uploads : DataReceived(u, StreamBody)
    \/ \E u \in Uploads : PutFinishWrite(u)
    \/ \E u \in Uploads : PutSetFileInfo(u)
    \/ \E u \in Uploads : PutRemoveOld(u)
    \/ \E u \in Uploads : ExitStackAClose(u)
    \/ \E d \in DeleteIds : DeleteStart(d, StreamPath)
    \/ \E d \in DeleteIds : DeleteRemove(d)
    \/ \E g \in StreamIds : StreamGet(g, StreamPath)
    \/ \E g \in StreamIds : StreamStep(g)
    \/ \E g \in StreamIds : StreamEnd(g)

SpecStream == InitUpload /\ [][NextStream]_vars

\* ------------------------------------------------------------------------
\* Claims about the delegates
\* ------------------------------------------------------------------------
ReadHappened == lastRead.key /= NoKey
ReadBytes == Flatten(lastRead.chunks)

\* C1: on every backend, a read_generator call made before finish_write has
\* completed for the key yields no byte of the object.
C1_NoBytesBeforeFinishWrite ==
    (ReadHappened /\ ~lastRead.committed) => ReadBytes = <<>>

\* C2: on every backend, whatever the split into write calls and whatever
\* is written to a second open handle meanwhile, a whole-object read after
\* finish_write yields exactly the bytes written to that handle, in order.
C2_RoundTrip ==
    (ReadHappened /\ lastRead.committed
        /\ lastRead.start = None /\ lastRead.end = None)
    => (~lastRead.raised /\ ReadBytes = written[lastRead.key])

\* A committed three-byte payload with a line break in it, read back whole
\* while the second handle holds bytes of its own.
C2_Witness ==
    /\ ReadHappened /\ lastRead.committed
    /\ lastRead.key = "k1"
    /\ written["k1"] = <<97, LF, 97>>
    /\ "k2" \in DOMAIN written /\ Len(written["k2"]) >= 2
    /\ ReadBytes = <<97, LF, 97>>

\* C3: for a committed payload P and offsets 0 <= start < end <= size the
\* chunks of read_generator(start, end) concatenate to P[start:end], and to
\* nothing when end <= start.
C3_RangeCorrect ==
    (ReadHappened /\ lastRead.committed
        /\ lastRead.start /= None /\ lastRead.end /= None)
    => LET P == written[lastRead.key]
           start == lastRead.start[1]
           end == lastRead.end[1]
       IN  /\ (start < end /\ end <= Len(P))
                => ReadBytes = SubSeq(P, start + 1, end)
           /\ end <= start => ReadBytes = <<>>

\* ------------------------------------------------------------------------
\* Claims about SimpleFileManager
\* ------------------------------------------------------------------------
VacuumEnded == lastCall.op = "vacuum"

\* C5: once a vacuum() call has ended, byte_count <= max_size when max_size
\* is set and item_count <= max_count when max_count is set, or the index is
\* empty.
C5_EvictionBound ==
    VacuumEnded =>
        \/ /\ max_size /= None => current_size <= max_size[1]
           /\ max_count /= None => Len(cache_mapping) <= max_count[1]
        \/ cache_mapping = <<>>

\* C6: the entries a vacuum() call evicted were all inserted before every
\* entry it left in the index.
C6_OldestFirst ==
    VacuumEnded =>
        \A i, j \in 1..Len(lastCall.before) :
            (/\ CacheIndex(cache_mapping, lastCall.before[i].key) = 0
             /\ CacheIndex(cache_mapping, lastCall.before[j].key) /= 0)
            => i < j

\* C7: byte_count is the sum of the sizes of the entries in the index.
C7_ByteCountIsSum == current_size = SumSizes(cache_mapping)


\* ------------------------------------------------------------------------
\* Claims about the upload and delete handlers
\* ------------------------------------------------------------------------
Range(s) == {s[i] : i \in 1..Len(s)}

\* The uploads that have called set_file_info.
Committers == {u \in DOMAIN uploads : "set_file_info" \in Range(uploads[u].log)}

\* Upload u calls set_file_info in this step.
SetStep(u) ==
    /\ u \in DOMAIN uploads /\ uploads[u].pc = "put_set"
    /\ uploads'[u].pc /= "put_set"

\* Upload u removes the object it displaced in this step.
RemoveOldStep(u) ==
    /\ u \in DOMAIN uploads /\ uploads[u].pc = "put_remove"
    /\ uploads'[u].pc /= "put_remove"

\* C4: no dangling index entries.  In every state of the server, whatever
\* the interleaving of uploads, rollbacks, DELETEs and vacuum, each key of
\* the index has one entry, and that entry's internal_key names an object in
\* state Committed.
C4_NoDanglingIndexEntries ==
    /\ \A i, j \in 1..Len(cache_mapping) :
          cache_mapping[i].key = cache_mapping[j].key => i = j
    /\ \A i \in 1..Len(cache_mapping) :
          ObjectState(backend, DState,
                      cache_mapping[i].value.internal_key) = "Committed"

\* C4's case: an entry is indexed while another upload has been rolled back,
\* and an indexed object's predecessor has been removed.
C4_Witness ==
    /\ Len(cache_mapping) > 0
    /\ \E u \in DOMAIN uploads :
          /\ uploads[u].closed /\ uploads[u].aclose = 0
          /\ uploads[u].internal_key \in removed
          /\ uploads[u].internal_key \notin IndexedKeys(cache_mapping)
    /\ \E u \in DOMAIN uploads :
          /\ uploads[u].status = 200
          /\ uploads[u].internal_key \in IndexedKeys(cache_mapping)

\* C8, the step: set_file_info returns the entry that was in the index for
\* the key when it ran (None if there was none) and leaves the key mapped to
\* its own FileInfo; the entry of a key changes only in such a step or by
\* being taken out.
C8_SetStepSwaps ==
    /\ \A u \in Uploads :
          SetStep(u) =>
             /\ uploads'[u].old_info
                   = CacheGet(cache_mapping, uploads[u].path)
             /\ CacheGet(cache_mapping', uploads[u].path)
                   = Some(UploadInfo(uploads[u]))
    /\ \A path \in Paths :
          CacheGet(cache_mapping', path) /= CacheGet(cache_mapping, path) =>
             \/ CacheGet(cache_mapping', path) = None
             \/ \E u \in Uploads : SetStep(u) /\ uploads[u].path = path

\* C8, the states: when the last call on the manager was set_file_info the
\* key is mapped to that call's FileInfo, and what get_file_info returns for
\* any key is None or the FileInfo some upload committed.
C8_IndexHoldsCommit ==
    /\ lastCall.op = "set_file_info" =>
          GetFileInfo(MState, lastCall.key) = lastCall.arg
    /\ \A path \in Paths :
          GetFileInfo(MState, path) \in
             {None} \cup {Some(UploadInfo(uploads[u])) : u \in Committers}

\* C8: set_file_info is one step and the last commit wins.  Each call
\* returns exactly the entry it displaced, after any interleaving of uploads
\* to one key the index holds the FileInfo of the call that ran last, and
\* get_file_info only ever sees None or a committed FileInfo.
C8_LastCommitWins == [][C8_SetStepSwaps]_vars /\ []C8_IndexHoldsCommit

\* C8's case: two uploads committed to one key, their puts overlapping; the
\* second got the first's FileInfo back and the index holds the second's.
C8_Witness ==
    \E u, v \in DOMAIN uploads :
       /\ u /= v /\ uploads[u].path = uploads[v].path
       /\ uploads[u].status = 200 /\ uploads[v].status = 200
       /\ uploads[u].old_info = None
       /\ uploads[v].old_info = Some(UploadInfo(uploads[u]))
       /\ lastCall.op = "set_file_info"
       /\ GetFileInfo(MState, uploads[v].path) = Some(UploadInfo(uploads[v]))

\* The order of put() in the calls an upload has made.
PutOrder == <<"finish_write", "set_file_info", "pop_all", "remove_old">>

\* C9, the step: when an upload calls set_file_info its finish_write is done
\* and its object is Committed and not yet in the index; when it removes the
\* displaced object it has called set_file_info, its rollback is cancelled,
\* and the index maps the key to its new object.
C9_StepsInOrder ==
    \A u \in Uploads :
       /\ SetStep(u) =>
             /\ uploads[u].log = <<"finish_write">>
             /\ ObjectState(backend, DState, uploads[u].internal_key)
                   = "Committed"
             /\ uploads[u].internal_key \notin IndexedKeys(cache_mapping)
             /\ uploads'[u].exit_stack = <<>>
       /\ RemoveOldStep(u) =>
             /\ uploads[u].log = SubSeq(PutOrder, 1, 3)
             /\ uploads[u].exit_stack = <<>>
             /\ CacheGet(cache_mapping, uploads[u].path)
                   = Some(UploadInfo(uploads[u]))
             /\ uploads[u].old_info[1].internal_key
                   /= uploads[u].internal_key
             /\ ObjectState(backend, DState, uploads[u].internal_key)
                   = "Committed"

\* C9, the states: a PUT answered 200 made its calls in the order of put(),
\* and removed a previous object exactly when it displaced one.
C9_LogInOrder ==
    \A u \in DOMAIN uploads :
       uploads[u].status = 200 =>
          /\ uploads[u].log =
                SubSeq(PutOrder, 1,
                       IF uploads[u].old_info = None THEN 3 ELSE 4)
          /\ uploads[u].old_info /= None =>
                uploads[u].old_info[1].internal_key \in removed

\* C9: a successful PUT runs finish_write, set_file_info, the cancellation
\* of the rollback and the removal of the previous object in this order: the
\* new object is Committed before the index refers to it, and the previous
\* object is removed only once the index maps the key to the new one.
C9_CommitOrder == [][C9_StepsInOrder]_vars /\ []C9_LogInOrder

\* C9's case: a PUT that displaced an entry has answered 200 and the object
\* it displaced is gone.
C9_Witness ==
    \E u \in DOMAIN uploads :
       /\ uploads[u].status = 200 /\ ~uploads[u].closed
       /\ uploads[u].old_info /= None
       /\ ObjectState(backend, DState,
                      uploads[u].old_info[1].internal_key) = "Absent"
       /\ GetFileInfo(MState, uploads[u].path) = Some(UploadInfo(uploads[u]))

\* The rollback of upload u was registered when its connection closed (or
\* its request failed), and every scheduled aclose has run to its end.
RollbackHasRun(u) ==
    /\ \/ uploads[u].closed /\ uploads[u].closed_at \in {"body", "put_set"}
       \/ uploads[u].status = 500
    /\ uploads[u].aclose = 0
    /\ running /= ACloseOf(u)

\* C10: when an upload's connection closes or its request fails before its
\* set_file_info, then after the rollback has run the object under the
\* upload's internal key is Absent, and the upload has left the index alone:
\* it has not called set_file_info and its key is not indexed.
C10_RollbackRemovesUpload ==
    \A u \in DOMAIN uploads :
       RollbackHasRun(u) =>
          /\ ObjectState(backend, DState, uploads[u].internal_key) = "Absent"
          /\ u \notin Committers
          /\ uploads[u].internal_key \notin IndexedKeys(cache_mapping)


\* The rollback of upload u calls delegate.remove(internal_key) in this
\* step: aclose takes the remove callback off the exit stack and runs it.
RollbackRemoveStep(u) ==
    /\ u \in DOMAIN uploads
    /\ "remove" \in Range(uploads[u].exit_stack)
    /\ "remove" \notin Range(uploads'[u].exit_stack)
    /\ ~SetStep(u)

\* C11: an object that is committed is never rolled back.  The rollback of
\* an upload never calls delegate.remove on the upload's internal key once
\* the upload's set_file_info has put that key in the index, and an upload
\* calls set_file_info only while its rollback has not yet called remove.
C11_CommittedNeverRolledBack ==
    [][\A u \in Uploads :
          /\ RollbackRemoveStep(u) => u \notin Committers
          /\ SetStep(u) => "remove" \in Range(uploads[u].exit_stack)]_vars


\* Upload u is over: it has answered, or its connection closed before the
\* body was complete (put is then never called), and its cleanup has run.
UploadOver(u) ==
    /\ \/ uploads[u].pc \in {"done", "failed"}
       \/ uploads[u].pc = "body" /\ uploads[u].closed
    /\ uploads[u].aclose = 0

\* No request is in flight.
Quiescent ==
    /\ running = None
    /\ deletes = EmptyDict
    /\ \A u \in DOMAIN uploads : UploadOver(u)

\* C13: no orphaned storage.  Once every request in flight has completed,
\* each object that is Writing or Committed in the delegate is the object of
\* some index entry: what DELETE removed, vacuum evicted, a newer PUT
\* displaced or a rollback abandoned is gone from storage, on every backend.
C13_NoOrphanedStorage ==
    Quiescent =>
       \A ik \in DOMAIN written :
          ObjectState(backend, DState, ik) \in {"Writing", "Committed"}
             => ik \in IndexedKeys(cache_mapping)

\* remove_file_info_async(path) of delete d finds an entry and takes it out
\* of the index in this step.
DeletePopStep(d) == d \notin DOMAIN deletes /\ d \in DOMAIN deletes'

\* Delete d calls delegate.remove in this step and is over.
DeleteRemoveStep(d) == d \in DOMAIN deletes /\ d \notin DOMAIN deletes'

\* remove_file_info_async(path) runs on a key without entry in this step.
DeleteAbsentStep(path) ==
    /\ CacheGet(cache_mapping, path) = None
    /\ lastCall' /= lastCall
    /\ lastCall'.op = "remove_file_info_async" /\ lastCall'.key = path

\* C14, the steps: on a present key the entry leaves the index and its size
\* the byte count in one step in which storage is not touched; the removal
\* that follows is of that entry's internal key and of nothing else, and
\* leaves the index alone.  On an absent key nothing changes and nothing is
\* raised.
C14_RemoveSteps ==
    /\ \A d \in DeleteIds :
          /\ DeletePopStep(d) =>
                /\ CacheGet(cache_mapping, deletes'[d].path)
                      = Some(deletes'[d].item)
                /\ CacheGet(cache_mapping', deletes'[d].path) = None
                /\ Len(cache_mapping') = Len(cache_mapping) - 1
                /\ current_size' = current_size - deletes'[d].item.size
                /\ UNCHANGED <<stream_mapping, data_mapping, path_mapping,
                               disk, removed>>
          /\ DeleteRemoveStep(d) =>
                /\ removed' = removed \cup {deletes[d].item.internal_key}
                /\ DState' = DelegateRemove(backend, DState,
                                            deletes[d].item.internal_key)
                /\ UNCHANGED <<cache_mapping, current_size>>
    /\ \A path \in Paths :
          DeleteAbsentStep(path) =>
             /\ UNCHANGED <<cache_mapping, current_size, delegateVars,
                            deletes>>
             /\ ~lastCall'.raised

\* C14, the states: from the step that took the entry out until the removal
\* is done, get_file_info of the key returns None and the index does not
\* refer to the entry's object.
C14_GoneWhileRemoving ==
    \A d \in DOMAIN deletes :
       /\ GetFileInfo(MState, deletes[d].path) = None
       /\ deletes[d].item.internal_key \notin IndexedKeys(cache_mapping)

\* C14: remove_file_info_async on a present key takes the entry out of the
\* index in one step before the storage removal is awaited, get_file_info
\* returns None from then on, and delegate.remove is called once, on that
\* entry's internal key; on an absent key it changes neither the index nor
\* the byte count, calls nothing on the delegate and does not raise.
C14_RemoveFileInfo == [][C14_RemoveSteps]_vars /\ []C14_GoneWhileRemoving

\* C14's case: a DELETE of a key that had an entry is over, the entry is
\* gone and delegate.remove was called on its object; and a DELETE of a key
\* without entry has run.
C14_Witness ==
    /\ lastCall.op = "remove_file_info_async"
    /\ deletes = EmptyDict
    /\ \E u \in DOMAIN uploads :
          /\ DOMAIN uploads = {u}
          /\ uploads[u].status = 200
          /\ uploads[u].path /= lastCall.key
          /\ uploads[u].internal_key \in removed
          /\ uploads[u].old_info = None
          /\ ~uploads[u].closed
          /\ GetFileInfo(MState, uploads[u].path) = None

\* ------------------------------------------------------------------------
\* Claims about handlers.py
\* ------------------------------------------------------------------------
\* C12: a delegate.write that fails during an upload is followed by the
\* rollback of the object before the error is surfaced.  Once an
\* UploadFileProxy whose write failed has been closed, and once a
\* ServeFileHandler PUT whose write failed has sent its response,
\* delegate.remove has been called on the upload's key and the object is
\* not left in state Writing.
C12_WriteFailureRollsBack ==
    /\ proxy.is_started /\ proxy.error /\ "aclose" \in Range(proxy.api) =>
          /\ "remove" \in Range(proxy.calls)
          /\ ObjectState(backend, DState, ProxyKey) /= "Writing"
    /\ \A r \in DOMAIN requests :
          /\ requests[r].method = "PUT"
          /\ requests[r].error
          /\ requests[r].status /= 0
          => /\ requests[r].internal_key[1] \in removed
             /\ ObjectState(backend, DState,
                            requests[r].internal_key[1]) /= "Writing"

\* ------------------------------------------------------------------------
\* Claims about the HTTP surface (requests served one after the other)
\* ------------------------------------------------------------------------
\* The body of n chunks a PUT has sent.
SentBody(n) == [i \in 1..n |-> 97]

\* After this step the index maps key to an entry on internal key ik, the
\* object that took the bytes body.
StoredAfter(key, ik, body) ==
    LET e == CacheGet(cache_mapping', key)
    IN  /\ e /= None
        /\ e[1].internal_key = ik
        /\ written'[ik] = body

\* A PUT is answered 200 in this step: by ServeFileHandler.put, by
\* FileUploadHandler.put.
ServePutAnswers(r) ==
    /\ r \in DOMAIN requests /\ requests[r].method = "PUT"
    /\ requests[r].status = 0
    /\ r \in DOMAIN requests' /\ requests'[r].status = 200

UploadPutAnswers(u) ==
    /\ u \in DOMAIN uploads /\ uploads[u].status = 0
    /\ uploads'[u].status = 200

\* Request r, of the given method, is received and answered in this step.
Answers(r, method) ==
    /\ r \notin DOMAIN requests /\ r \in DOMAIN requests'
    /\ requests'[r].method = method

\* C15, the PUT: when it is answered 200 the index has an entry for the key
\* whose object holds the body sent.
C15_PutStores ==
    /\ \A r \in ReqIds :
          ServePutAnswers(r) =>
             StoredAfter(requests[r].path, requests[r].internal_key[1],
                         SentBody(requests[r].chunks))
    /\ \A u \in Uploads :
          UploadPutAnswers(u) =>
             StoredAfter(uploads[u].path, uploads[u].internal_key,
                         SentBody(uploads[u].chunks))

\* C15, the reads: a GET (without Range) of a key that has an entry is
\* answered 200 with the bytes of the entry's object, a HEAD 204 without
\* body.
C15_GetServes ==
    \A r \in ReqIds :
       LET q == requests'[r]
           e == GetFileInfo(MState, q.path)
       IN  /\ Answers(r, "GET") /\ e /= None /\ q.range = None =>
                q.status = 200 /\ q.body = written[e[1].internal_key]
           /\ Answers(r, "HEAD") /\ e /= None =>
                q.status = 204 /\ q.body = <<>>

\* C15, in between: the entry of a key changes only when a PUT to the key
\* commits or a DELETE of the key is served.
C15_EntryKept ==
    \A key \in Paths :
       CacheGet(cache_mapping', key) /= CacheGet(cache_mapping, key) =>
          \/ \E u \in Uploads : SetStep(u) /\ uploads[u].path = key
          \/ \E r \in ReqIds :
                ServePutAnswers(r) /\ requests[r].path = key
          \/ \E r \in ReqIds :
                Answers(r, "DELETE") /\ requests'[r].path = key

\* C15: after a PUT of body B to key K has completed successfully the index
\* has an entry for K, and until K is deleted or overwritten every GET K is
\* answered 200 with body exactly B and every HEAD K 204 with no body.
C15_PutThenGet ==
    [][C15_PutStores /\ C15_GetServes /\ C15_EntryKept]_vars

\* A PUT is answered with a success status in this step.
Success == 200..299

ServePutSucceeds(r) ==
    /\ r \in DOMAIN requests /\ requests[r].method = "PUT"
    /\ requests[r].status = 0
    /\ r \in DOMAIN requests' /\ requests'[r].status \in Success

UploadPutSucceeds(u) ==
    /\ u \in DOMAIN uploads /\ uploads[u].status = 0
    /\ uploads'[u].status \in Success

\* C16: a PUT that creates a resource at a key with no existing index entry
\* responds 201, and its response carries ETag and Last-Modified headers.
C16_CreatedResponse ==
    [][/\ \A r \in ReqIds :
             /\ ServePutSucceeds(r)
             /\ GetFileInfo(MState, requests[r].path) = None
             => /\ requests'[r].status = 201
                /\ {"ETag", "Last-Modified"} \subseteq requests'[r].headers
       /\ \A u \in Uploads :
             UploadPutSucceeds(u) /\ uploads'[u].old_info = None
             => /\ uploads'[u].status = 201
                /\ {"ETag", "Last-Modified"} \subseteq UploadResponseHeaders
      ]_vars

\* C17, the DELETE: on a key that has an entry it is answered 200 and the
\* entry is gone.
C17_DeleteRemoves ==
    \A r \in ReqIds :
       Answers(r, "DELETE") /\ GetFileInfo(MState, requests'[r].path) /= None
       => /\ requests'[r].status = 200
          /\ CacheGet(cache_mapping', requests'[r].path) = None

\* C17, afterwards: GET and HEAD of a key without entry are answered 404,
\* and a key gets an entry only when a PUT to it commits.
C17_GoneUntilPut ==
    /\ \A r \in ReqIds :
          /\ Answers(r, "GET") \/ Answers(r, "HEAD")
          /\ GetFileInfo(MState, requests'[r].path) = None
          => requests'[r].status = 404
    /\ \A key \in Paths :
          /\ CacheGet(cache_mapping, key) = None
          /\ CacheGet(cache_mapping', key) /= None
          => \/ \E u \in Uploads : SetStep(u) /\ uploads[u].path = key
             \/ \E r \in ReqIds :
                   ServePutSucceeds(r) /\ requests[r].path = key

\* C17: DELETE of a key that has an entry responds 200, and afterwards GET
\* and HEAD of that key respond 404 until a new PUT to it succeeds.
C17_DeleteThenNotFound == [][C17_DeleteRemoves /\ C17_GoneUntilPut]_vars

\* ------------------------------------------------------------------------
\* Claims about check_if_304
\* ------------------------------------------------------------------------
\* The If-None-Match header of the call lists the object's etag among its
\* quoted values.
EtagListed ==
    /\ cond.etag /= None /\ cond.if_none_match /= None
    /\ \E l \in EtagLists(MaxList) :
          /\ RenderIfNoneMatch(l) = cond.if_none_match[1]
          /\ cond.etag[1] \in Range(l)

\* C18: check_if_304 returns true whenever the object has an etag and the
\* If-None-Match header contains that etag as one of the quoted values of
\* a comma-separated list, or as its only value.
C18_EtagInListMatches ==
    cond.called /\ EtagListed => cond.result /\ ~cond.raised

\* No ETag check applies to the call: the object has no etag or the
\* request no If-None-Match.
NoEtagCheck == cond.etag = None \/ cond.if_none_match = None

\* The If-Modified-Since of the call parses to a timestamp at or after the
\* object's last_modified (strict: after it).
ModifiedSince(strict) ==
    /\ cond.last_modified /= None /\ cond.if_modified_since /= None
    /\ ParseHeaderDate(cond.if_modified_since[1]) /= None
    /\ LET t == ParseHeaderDate(cond.if_modified_since[1])[1]
       IN  IF strict THEN t > cond.last_modified[1]
           ELSE t >= cond.last_modified[1]

\* C19: when no ETag check applies, check_if_304 returns true exactly when
\* the object has last_modified and If-Modified-Since parses to a
\* timestamp >= last_modified (a header 2 seconds after Last-Modified
\* gives 304, one 2 seconds before it the normal response).
C19_ModifiedSinceDecides ==
    cond.called /\ NoEtagCheck => (cond.result <=> ModifiedSince(FALSE))

\* C20: for an object with both etag and last_modified, a mismatching
\* If-None-Match with a future If-Modified-Since is not answered 304, and a
\* matching If-None-Match is answered 304 whatever If-Modified-Since says.
C20_EtagTakesPrecedence ==
    cond.called /\ cond.etag /= None /\ cond.last_modified /= None =>
       /\ cond.if_none_match /= None /\ ~EtagListed /\ ModifiedSince(TRUE)
          => ~cond.result
       /\ EtagListed => cond.result

\* ------------------------------------------------------------------------
\* Claims about serve_get_from_file_info
\* ------------------------------------------------------------------------
\* The calls of serve_get_from_file_info that have returned or raised.
ServeCalls ==
    {r \in DOMAIN requests :
        requests[r].handler = "serve_get_from_file_info"}

\* What check_if_304 gives on the file_info and headers of call r.
Predicate(r) ==
    CheckIf304(requests[r].etag, requests[r].last_modified,
               requests[r].if_none_match, requests[r].if_modified_since)

\* C21: serve responds 304 with no body when ignore_caching is false and
\* the conditional predicate holds, head_only or not; otherwise, when
\* head_only, 204 with no body; in both cases delegate.read_generator is
\* not invoked; with ignore_caching set the predicate is not consulted.
C21_NotModifiedThenHeadOnly ==
    \A r \in ServeCalls :
       LET q == requests[r]
       IN  /\ ~q.ignore_caching /\ Predicate(r).result
              => q.status = 304 /\ q.body = <<>> /\ ~q.read /\ ~q.raised
           /\ /\ q.method = "HEAD"
              /\ q.ignore_caching
                 \/ (~Predicate(r).result /\ ~Predicate(r).raised)
              => q.status = 204 /\ q.body = <<>> /\ ~q.read /\ ~q.raised
           /\ q.ignore_caching => ~q.checked
           /\ ~q.ignore_caching => q.checked

\* C21's case: a head_only call whose predicate held was answered 304, a
\* call with ignore_caching and a matching header was not.
C21_Witness ==
    \E r \in ServeCalls :
       /\ requests[r].method = "HEAD" /\ requests[r].status = 304
       /\ requests[r].etag /= None /\ requests[r].if_none_match /= None

\* The (start, end) serve reads for call r, and the chunks
\* delegate.read_generator yields for them.
ParsedRange(r) ==
    IF requests[r].range = None THEN <<None, None>>
    ELSE ParseRangeHeader(requests[r].range[1])

ReadChunks(r) ==
    DelegateReadGenerator(backend, DState, requests[r].internal_key[1],
                          ParsedRange(r)[1], ParsedRange(r)[2]).chunks

\* Call r is a GET that is not answered 304.
PlainGet(r) ==
    /\ requests[r].method = "GET"
    /\ \/ requests[r].ignore_caching
       \/ ~Predicate(r).result /\ ~Predicate(r).raised

\* C22: for a GET that is neither answered 304 nor head_only, serve
\* responds 206 exactly when the Range header is present and parses to
\* something other than (None, None) and 200 otherwise, and the body is the
\* concatenation, in order, of the chunks of
\* delegate.read_generator(internal_key, start, end) for the parsed range.
C22_RangeStatusAndBody ==
    \A r \in ServeCalls :
       PlainGet(r) =>
          /\ requests[r].read
          /\ requests[r].status =
                IF requests[r].range /= None
                   /\ ParsedRange(r) /= <<None, None>>
                THEN 206 ELSE 200
          /\ requests[r].body = Flatten(ReadChunks(r))

\* C22's case: a sub-range read that came in several chunks was answered
\* 206, and a full read 200.
C22_Witness ==
    \E r \in ServeCalls :
       /\ PlainGet(r) /\ requests[r].status = 206
       /\ Len(ReadChunks(r)) >= 2
       /\ requests[r].body /= <<>>

\* ------------------------------------------------------------------------
\* Claims about the FileInfo of an upload
\* ------------------------------------------------------------------------
\* C23, the size: the FileInfo a successful PUT leaves in the index has
\* size equal to the number of bytes committed under its internal key.
C23_SizeIsBytesWritten ==
    \A u \in Uploads :
       UploadPutSucceeds(u) =>
          LET e == CacheGet(cache_mapping', uploads[u].path)
          IN  /\ e /= None
              /\ e[1].internal_key = uploads[u].internal_key
              /\ e[1].size = Len(written'[uploads[u].internal_key])

\* C23, etag and last_modified: the accessors of that FileInfo return an
\* etag and a last_modified, and GET / HEAD of the key emit them as ETag
\* and Last-Modified.
C23_EtagAndLastModifiedSet ==
    /\ \A u \in Uploads :
          UploadPutSucceeds(u) =>
             LET e == CacheGet(cache_mapping', uploads[u].path)
             IN  e /= None => /\ FileInfoEtag(e[1]) /= None
                              /\ FileInfoLastModified(e[1]) /= None
    /\ \A r \in ReqIds :
          /\ Answers(r, "GET") \/ Answers(r, "HEAD")
          /\ GetFileInfo(MState, requests'[r].path) /= None
          => {"ETag", "Last-Modified"} \subseteq requests'[r].headers

\* C23: after a successful PUT the FileInfo stored for the key has the etag
\* (the caller's ETag header, else the hash of the body), size equal to the
\* number of body bytes written, and a set last_modified; its accessors
\* return these values and GET / HEAD emit them as ETag and Last-Modified.
C23_StoredFileInfo ==
    [][C23_SizeIsBytesWritten /\ C23_EtagAndLastModifiedSet]_vars

\* ------------------------------------------------------------------------
\* Claims about the object lifecycle (spec.md section 3)
\* ------------------------------------------------------------------------
\* C24: read_generator on an internal key whose object is Absent (never
\* started, or removed) or still Writing is an error on every backend; it
\* never returns an empty or partial sequence as if it were a valid result.
C24_ReadOutsideCommittedRaises ==
    ReadHappened /\ ~lastRead.committed => lastRead.raised

\* The handle of key is not open for writing: start_write was never called
\* on it, or finish_write has completed on it.
HandleNotOpen(key) == key \notin DOMAIN written \/ key \in finished

\* C25: write(handle, bytes) fails with a storage error whenever the handle
\* is not open for writing (after finish_write, or never passed to
\* start_write), on every backend, and leaves all stored bytes unchanged.
C25_WriteNeedsOpenHandle ==
    \A key \in WriterKeys, data \in WriteArgs(Bytes) :
       HandleNotOpen(key) =>
          \A r \in DelegateWrite(backend, DState, key, data) :
             r.raised /\ r.d = DState

\* What a whole read of key yields now.
ReadNow(key) ==
    Flatten(DelegateReadGenerator(backend, DState, key, None, None).chunks)

\* The object of key is Absent and a read of it yields nothing.
Gone(key) ==
    /\ ObjectState(backend, DState, key) = "Absent"
    /\ ReadNow(key) = <<>>

\* C26: remove moves the object to Absent from any state, on every backend:
\* the first remove(h) after start_write(h) leaves the object Absent with
\* nothing to read, and once that is so no later write or finish_write on h
\* (there is no new start_write: a key is started once) makes it Committed
\* or readable again.
C26_RemovedStaysAbsent ==
    [][\A key \in DOMAIN written :
          \/ key \notin removed /\ key \in removed'
          \/ key \in removed /\ Gone(key)
          => Gone(key)']_vars

\* C27: remove is idempotent: removing a key whose object is Absent (never
\* written, or already removed) returns normally (remove has no raising
\* path: the only error, OSError, is swallowed) and leaves the whole store
\* as it was, so no other object's state or bytes change.
C27_RemoveAbsentIsNoOp ==
    \A key \in WriterKeys :
       ObjectState(backend, DState, key) = "Absent"
          => DelegateRemove(backend, DState, key) = DState

\* remove was called on a key that was never written while another object
\* is committed with content.
C27_Witness ==
    \E key \in removed, other \in finished :
       /\ key \notin DOMAIN written
       /\ ObjectState(backend, DState, key) = "Absent"
       /\ ObjectState(backend, DState, other) = "Committed"
       /\ ReadNow(other) # <<>>

\* C28: once finish_write(h) has completed the object is sealed: a whole
\* read of h yields the bytes written before finish_write, h stays finished,
\* and no later write(h, ...) or finish_write(h) (there is no new
\* start_write: a key is started once) changes what a read of h yields.
C28_SealedAfterFinishWrite ==
    [][\A key \in finished :
          /\ ReadNow(key) = written[key]
          /\ key \in finished'
          /\ ReadNow(key)' = ReadNow(key)]_vars

\* A finished object with content has been read, and write and finish_write
\* applied to it now leave a store whose read of it yields the same bytes.
C28_Witness ==
    \E key \in finished :
       /\ ReadNow(key) # <<>>
       /\ lastRead.key = key /\ lastRead.committed
       /\ \E data \in WriteArgs(Alphabet(key)) :
             \E r \in DelegateWrite(backend, DState, key, data) :
                Flatten(DelegateReadGenerator(
                    backend, DelegateFinishWrite(backend, r.d, key).d,
                    key, None, None).chunks) = ReadNow(key)

\* C29: a call whose If-Modified-Since is non-empty but no date (the parser
\* yields None) and that has no If-None-Match is treated as carrying no
\* conditional match: check_if_304 returns False without raising and the
\* call is answered 204 (head_only) or served, never 304 nor an exception;
\* and a Range that parses to no range is served as the whole object, 200.
C29_UnparseableHeadersDegrade ==
    \A r \in ServeCalls :
       LET q == requests[r]
       IN  /\ /\ q.if_modified_since = Some(BadDate)
              /\ q.if_none_match = None
              /\ ~q.ignore_caching
              => /\ ~Predicate(r).raised /\ ~Predicate(r).result
                 /\ q.status # 304
                 /\ q.method = "HEAD" => q.status = 204 /\ ~q.raised
                 /\ q.method = "GET" /\ q.range = None
                    => q.status = 200 /\ ~q.raised
           /\ /\ q.range = Some(RangeHeader(None, None))
              /\ PlainGet(r)
              => /\ q.status = 200 /\ ~q.raised
                 /\ q.body = written[ServeKey]

\* What the sink has got and where the parser stands.
ParserResult(p) == [state |-> p.state, sink |-> p.sink]

\* C30: parser chunk-invariance: however the payload is cut into chunks
\* (inside the marker, a header line, body data that resembles a marker),
\* once all of it has been fed the sink holds the same part names, headers
\* and bodies, and the parser is in the same state, as when the whole
\* payload is fed in one data_received call.
C30_ChunkInvariance ==
    parser.pos = Len(parser.payload)
       => ParserResult(parser)
             = ParserResult(ParserDataReceived(NoParser, parser.payload))

\* The payload of the tests has been fed to its end with cuts inside a
\* marker, a header line and a marker lookalike, and both parts have
\* arrived.
C30_Witness ==
    /\ parser.payload = TestPayload
    /\ parser.pos = Len(parser.payload)
    /\ parser.state = "DONE"
    /\ parser.cuts = {"marker", "header", "lookalike"}
    /\ parser.sink.finished_files = <<<<97>>, <<98>>>>
    /\ parser.sink.parsed_data[<<98>>] = <<99, LF>> \o Lookalike \o <<LF>>

\* The part that is started and not finished before the i-th sink call:
\* its name in a one-element sequence, <<>> when there is none.
OpenPart(calls, i) ==
    LET js == {j \in 1..(i - 1) : calls[j].op # "file_data_received"}
        last == CHOOSE j \in js : \A k \in js : k <= j
    IN  IF js = {} \/ calls[last].op = "finish_file" THEN <<>>
        ELSE <<calls[last].name>>

\* The bytes the file_data_received calls have carried for name, in order.
RECURSIVE DataOf(_, _)
DataOf(calls, name) ==
    IF calls = <<>> THEN <<>>
    ELSE (IF Head(calls).op = "file_data_received" /\ Head(calls).name = name
          THEN Head(calls).arg ELSE <<>>) \o DataOf(Tail(calls), name)

\* The body of part name in the payload: what one data_received call of
\* the whole payload hands to the sink for it.
WholeBody(payload, name) ==
    LET data == ParserDataReceived(NoParser, payload).sink.parsed_data
    IN  IF name \in DOMAIN data THEN data[name] ELSE <<>>

CallsOf(calls, op, name) ==
    {i \in 1..Len(calls) : calls[i].op = op /\ calls[i].name = name}

\* C31: under every chunking the sink sees, for each part, start_new_file
\* once, then file_data_received calls whose concatenation is the part's
\* body, then finish_file once: a part is started only when none is open
\* and it was not started before, data and finish arrive only for the part
\* that is open, the data so far is a prefix of the body, and when the
\* closing marker has been seen every started part is finished once and has
\* got its whole body.
C31_SinkCallOrder ==
    LET calls == parser.calls
        names == {calls[i].name : i \in 1..Len(calls)}
    IN  /\ \A i \in 1..Len(calls) :
              IF calls[i].op = "start_new_file"
              THEN /\ OpenPart(calls, i) = <<>>
                   /\ CallsOf(calls, "start_new_file", calls[i].name) = {i}
              ELSE OpenPart(calls, i) = <<calls[i].name>>
        /\ \A name \in names :
              /\ IsPrefix(DataOf(calls, name),
                          WholeBody(parser.payload, name))
              /\ Cardinality(CallsOf(calls, "finish_file", name)) <= 1
              /\ parser.state = "DONE"
                 => /\ Cardinality(CallsOf(calls, "finish_file", name)) = 1
                    /\ DataOf(calls, name)
                          = WholeBody(parser.payload, name)

\* The payload of the tests has been parsed to its end, cut inside the
\* second body: the sink got the first part's three calls, then the second
\* part's start, its body in more than one piece, and its finish.
C31_Witness ==
    /\ parser.payload = TestPayload
    /\ parser.state = "DONE"
    /\ "lookalike" \in parser.cuts
    /\ Len(parser.calls) >= 7
    /\ parser.calls[1] = [op |-> "start_new_file", name |-> <<97>>,
                          arg |-> ParseHeaders(<<ContentDisposition, COLON,
                                                 97>>)]
    /\ parser.calls[2] = [op |-> "file_data_received", name |-> <<97>>,
                          arg |-> <<97>>]
    /\ parser.calls[3].op = "finish_file"
    /\ parser.calls[Len(parser.calls)]
          = [op |-> "finish_file", name |-> <<98>>, arg |-> <<>>]
    /\ DataOf(parser.calls, <<98>>) = <<99, LF>> \o Lookalike \o <<LF>>

C33_BackendsInterchangeable == twin.last.mem = twin.last.sync

\* C34: read_generator iterations over the same committed object,
\* interleaved at chunk boundaries, each yield the object's bytes in order
\* from the beginning: what an iteration has yielded is the beginning of
\* the bytes, all of them once it has ended, and it does not raise; a step
\* of an iteration leaves the delegate's stored state unchanged.
C34_ReadsAreIndependent ==
    [][/\ \A g \in DOMAIN readers' :
             LET rd == readers'[g]
             IN  /\ ~rd.raised
                 /\ IsPrefix(Flatten(rd.got), written[rd.key])
                 /\ rd.state = "done" => Flatten(rd.got) = written[rd.key]
       /\ readers' # readers => DState' = DState]_vars

\* Two iterations over an object of more than one chunk, one ended with
\* all the bytes while the other, begun before, has yielded its first
\* chunk only.
C34_Witness ==
    /\ DOMAIN readers = ReaderIds
    /\ readers["g1"].state = "open" /\ Len(readers["g1"].got) = 1
    /\ readers["g2"].state = "done" /\ Len(readers["g2"].got) >= 2
    /\ Flatten(readers["g2"].got) = written[ReadKey]

\* C35: vacuum() always ends normally, whatever the index and the bounds,
\* also when the index is empty while the tracked total exceeds max_size.
C35_VacuumReturns == VacuumEnded => ~lastCall.raised

\* The bounds hold for index c with tracked total size.
BoundsHold(c, size) ==
    /\ max_count = None \/ Len(c) <= max_count[1]
    /\ max_size = None \/ size <= max_size[1]

\* How many of the oldest entries of c have to go for the bounds to hold:
\* the least such number, all of them when no number does.
ShortestPrefix(c, size) ==
    LET ks == {k \in 0..Len(c) :
                  BoundsHold(Drop(c, k), size - SumSizes(Take(c, k)))}
    IN  IF ks = {} THEN Len(c) ELSE CHOOSE k \in ks : \A j \in ks : k <= j

\* A vacuum() call is made in this step.
VacuumStep == lastCall' # lastCall /\ lastCall'.op = "vacuum"

\* C36: vacuum() stops as soon as the bounds are satisfied: when they hold
\* already (or none is set) it returns having left index, byte_count and
\* storage unchanged; otherwise what it evicts is the shortest run of oldest
\* entries whose removal restores the bounds.
C36_VacuumStopsAtBound ==
    [][VacuumStep =>
          /\ BoundsHold(cache_mapping, current_size) =>
                /\ ~lastCall'.raised
                /\ cache_mapping' = cache_mapping
                /\ current_size' = current_size
                /\ DState' = DState
          /\ cache_mapping'
                = Drop(cache_mapping,
                       ShortestPrefix(cache_mapping, current_size))]_vars


\* ------------------------------------------------------------------------
\* Claims about suffix ranges
\* ------------------------------------------------------------------------
\* The call of serve_get_from_file_info made in this step, with a
\* Range: bytes=-N header, on an object of at least N bytes.
SuffixCall(r, n) ==
    /\ r \notin DOMAIN requests /\ r \in DOMAIN requests'
    /\ requests'[r].handler = "serve_get_from_file_info"
    /\ requests'[r].method = "GET"
    /\ \/ requests'[r].ignore_caching
       \/ /\ requests'[r].if_none_match = None
          /\ requests'[r].if_modified_since = None
    /\ requests'[r].range = Some(RangeHeader(None, Some(n)))
    /\ n >= 1 /\ Len(ReadNow(ServeKey)) >= n

\* C37: a GET with Range: bytes=-N on a committed object of size >= N
\* responds 206 with exactly the last N bytes of the object, on every
\* backend.
C37_SuffixRangeServesTail ==
    [][\A r \in ReqIds, n \in 1..MaxLen :
          SuffixCall(r, n) =>
             /\ ~requests'[r].raised
             /\ requests'[r].status = 206
             /\ requests'[r].body =
                   Drop(ReadNow(ServeKey),
                        Len(ReadNow(ServeKey)) - n)]_vars


\* ------------------------------------------------------------------------
\* Claims about UploadFileProxy
\* ------------------------------------------------------------------------
\* The calls of method name made on the proxy so far.
ApiCalls(p, name) == {i \in 1..Len(p.api) : p.api[i] = name}
\* The calls of method name made on the delegate so far.
DelegateCalls(p, name) == {i \in 1..Len(p.calls) : p.calls[i] = name}

\* start() has succeeded.
StartSucceeded(p) == \E i \in ApiCalls(p, "start") : ~p.rets[i].raised
\* The upload has been marked finished: by a finish() that returned, by
\* mark_error after a write that failed, or by an aclose().
MarkedFinished(p) ==
    \/ \E i \in ApiCalls(p, "finish") : ~p.rets[i].raised
    \/ \E i \in DelegateCalls(p, "write") : p.errs[i]
    \/ ApiCalls(p, "aclose") /= {}

\* This step is a call of method name on the proxy.
ApiStep(name) ==
    /\ Len(proxy'.api) = Len(proxy.api) + 1
    /\ proxy'.api[Len(proxy'.api)] = name
\* This step calls delegate.remove.
RemoveStep ==
    /\ Len(proxy'.calls) = Len(proxy.calls) + 1
    /\ proxy'.calls[Len(proxy'.calls)] = "remove"

\* C39: aclose calls delegate.remove(key) if and only if start() succeeded
\* and the upload was not yet marked finished; remove is called by no other
\* method, at most once over any sequence of calls, never after a finish()
\* that succeeded, and aclose does not raise even when remove fails.
C39_RollbackOnClose ==
    /\ [][/\ ApiStep("aclose") =>
                (RemoveStep <=> StartSucceeded(proxy) /\ ~MarkedFinished(proxy))
          /\ RemoveStep =>
                /\ ApiStep("aclose")
                /\ DelegateCalls(proxy, "remove") = {}
                /\ \A i \in ApiCalls(proxy, "finish") : proxy.rets[i].raised]_vars
    /\ [](\A i \in ApiCalls(proxy, "aclose") : ~proxy.rets[i].raised)

\* C39's case: an upload that was started was closed twice, the first
\* aclose called remove, which failed, and the second called nothing.
C39_Witness ==
    /\ proxy.api = <<"start", "aclose", "aclose">>
    /\ proxy.calls = <<"start_write", "remove">>
    /\ proxy.errs = <<FALSE, TRUE>>
    /\ \A i \in 1..3 : ~proxy.rets[i].raised

\* The first write on the delegate that failed, 0 when none has.
FirstFailedWrite(p) ==
    LET fs == {i \in DelegateCalls(p, "write") : p.errs[i]}
    IN  IF fs = {} THEN 0 ELSE CHOOSE i \in fs : \A j \in fs : i <= j

\* C40: after the first delegate.write that failed no delegate.write and no
\* delegate.finish_write is called for the upload, and every data_received,
\* before or after the error, returns len(data) and does not raise.
C40_ErroredUploadNeverCommitted ==
    /\ FirstFailedWrite(proxy) /= 0 =>
          \A j \in (FirstFailedWrite(proxy) + 1)..Len(proxy.calls) :
             proxy.calls[j] \notin {"write", "finish_write"}
    /\ \A i \in ApiCalls(proxy, "data_received") :
          /\ ~proxy.rets[i].raised
          /\ proxy.rets[i].value = Some(Len(proxy.rets[i].arg[1]))

\* C40's case: a write failed, and the data_received and the finish that
\* came after it called nothing on the delegate.
C40_Witness ==
    /\ proxy.api = <<"start", "data_received", "data_received", "finish">>
    /\ proxy.calls = <<"start_write", "write">>
    /\ proxy.errs = <<FALSE, TRUE>>
    /\ proxy.rets[3].value = Some(2)


\* ------------------------------------------------------------------------
\* Claims about a GET in flight
\* ------------------------------------------------------------------------
\* C38: a GET that has the FileInfo of a key and is streaming its object is
\* not disrupted by a PUT or a DELETE of the key that completes meanwhile:
\* what it has sent is the beginning of the bytes of the object it started
\* on, all of them once it has ended, and it does not fail.
C38_InFlightGetNotDisrupted ==
    \A g \in DOMAIN readers :
       LET rd == readers[g]
       IN  /\ ~rd.raised
           /\ IsPrefix(Flatten(rd.got), written[rd.key])
           /\ rd.state = "done" => Flatten(rd.got) = written[rd.key]

\* C38's case: the file of the object was unlinked, by the PUT that
\* displaced it or by a DELETE, after the GET had sent its first chunk, and
\* the GET has ended with all the bytes.
C38_Witness ==
    \E g \in DOMAIN readers :
       /\ backend = "Synchronous"
       /\ readers[g].orphan /= None
       /\ readers[g].key \in removed
       /\ readers[g].key \notin DOMAIN disk
       /\ readers[g].state = "done"
       /\ Len(readers[g].got) >= 2
       /\ Flatten(readers[g].got) = StreamBody

====
